---------------------------- MODULE Spec2Model ----------------------------
(***************************************************************************)
(* The alert analysis pipeline of the AIOps alert processor:               *)
(*   app.py                 the queue, the webhook and manual entry        *)
(*                          points, the single queue worker                *)
(*   services/analyzer.py   AlertAnalyzer: metrics, logs, LLM, result      *)
(*   clients/prometheus.py  metric query synthesis and ranged queries      *)
(*   clients/loki.py        log query synthesis and ranged queries         *)
(*   clients/deepseek.py    the LLM call, its retry wrapper, the parsing   *)
(*                          and repair of the returned text                *)
(*                                                                         *)
(* Python strings are TLA+ strings (TLC evaluates Len, SubSeq and \o on    *)
(* them), so a response text is decoded character by character.            *)
(***************************************************************************)
EXTENDS Integers, Sequences, FiniteSets, TLC

VARIABLES
    response,      \* a response text handed to _parse_analysis_response on its own
    parsed         \* what _parse_analysis_response did with it

---------------------------------------------------------------------------
(* Strings *)

\* F applied to the value of x, which is computed once
Let(x, F(_)) == CHOOSE r \in {F(v) : v \in {x}} : TRUE

Min(a, b) == IF a <= b THEN a ELSE b

\* s[i] for a 1-based i, "" outside the string
Ch(s, i) == IF i >= 1 /\ i <= Len(s) THEN SubSeq(s, i, i) ELSE ""

\* s[:n]
Prefix(s, n) == SubSeq(s, 1, Min(Len(s), n))

\* whether sub occurs in s from position i on (Python: sub in s)
RECURSIVE ContainsFrom(_, _, _)
ContainsFrom(s, sub, i) ==
    IF i + Len(sub) - 1 > Len(s) THEN FALSE
    ELSE IF SubSeq(s, i, i + Len(sub) - 1) = sub THEN TRUE
    ELSE ContainsFrom(s, sub, i + 1)

Contains(s, sub) == ContainsFrom(s, sub, 1)

Digits == {"0", "1", "2", "3", "4", "5", "6", "7", "8", "9"}

Whitespace == {" ", "\n", "\t", "\r"}

---------------------------------------------------------------------------
(* JSON values as Python holds them after json.loads.  Every value has the *)
(* same three fields: t the type, s the text of a scalar (or the key of a  *)
(* dict entry), items the elements of a list or the entries of a dict, in  *)
(* insertion order.                                                        *)

JStr(s) == [t |-> "str", s |-> s, items |-> <<>>]
JNum(lit) == [t |-> "num", s |-> lit, items |-> <<>>]
JBool(lit) == [t |-> "bool", s |-> lit, items |-> <<>>]
JNull == [t |-> "null", s |-> "", items |-> <<>>]
JList(items) == [t |-> "list", s |-> "", items |-> items]
JPair(k, v) == [t |-> "pair", s |-> k, items |-> <<v>>]
JObj(entries) == [t |-> "obj", s |-> "", items |-> entries]

\* key in d
HasKey(d, k) == \E i \in 1..Len(d.items) : d.items[i].s = k

\* d.get(k, default)
DictGet(d, k, default) ==
    IF HasKey(d, k)
    THEN LET i == CHOOSE j \in 1..Len(d.items) : d.items[j].s = k
         IN  d.items[i].items[1]
    ELSE default

\* d[k] = v: an existing key keeps its place
DictSet(d, k, v) ==
    IF HasKey(d, k)
    THEN JObj([i \in 1..Len(d.items) |->
                 IF d.items[i].s = k THEN JPair(k, v) ELSE d.items[i]])
    ELSE JObj(Append(d.items, JPair(k, v)))

Keys(d) == {d.items[i].s : i \in 1..Len(d.items)}

---------------------------------------------------------------------------
(* json.loads, the decoder _parse_analysis_response calls.  Escape         *)
(* sequences inside strings are outside the modelled alphabet.             *)

Slice(s, i, j) == SubSeq(s, i, Min(j, Len(s)))

RECURSIVE SkipWs(_, _)
SkipWs(s, i) == IF Ch(s, i) \in Whitespace THEN SkipWs(s, i + 1) ELSE i

RECURSIVE ScanDigits(_, _)
ScanDigits(s, i) == IF Ch(s, i) \in Digits THEN ScanDigits(s, i + 1) ELSE i

\* the index of the first quote at or after i, 0 when there is none
RECURSIVE ScanQuote(_, _)
ScanQuote(s, i) ==
    IF i > Len(s) THEN 0
    ELSE IF Ch(s, i) = "\"" THEN i
    ELSE ScanQuote(s, i + 1)

\* the index after the number literal that starts at i, 0 when none starts there
ScanNumber(s, i) ==
    Let(IF Ch(s, i) = "-" THEN i + 1 ELSE i, LAMBDA j :
      IF Ch(s, j) \notin Digits THEN 0
      ELSE Let(IF Ch(s, j) = "0" THEN j + 1 ELSE ScanDigits(s, j), LAMBDA k :
             Let(IF Ch(s, k) = "." /\ Ch(s, k + 1) \in Digits
                 THEN ScanDigits(s, k + 1) ELSE k, LAMBDA f :
               Let(IF Ch(s, f) \in {"e", "E"}
                   THEN (IF Ch(s, f + 1) \in {"+", "-"} THEN f + 2 ELSE f + 1)
                   ELSE 0, LAMBDA x :
                 IF x > 0 /\ Ch(s, x) \in Digits THEN ScanDigits(s, x) ELSE f))))

DecodeFail == [ok |-> FALSE, val |-> JNull, pos |-> 0]

Decoded(v, p) == [ok |-> TRUE, val |-> v, pos |-> p]

RECURSIVE scan_once(_, _), JSONObject(_, _, _), JSONArray(_, _, _)

\* one value starting at i
scan_once(s, i) ==
    Let(Ch(s, i), LAMBDA c :
      CASE c = "\"" ->
             Let(ScanQuote(s, i + 1), LAMBDA q :
               IF q = 0 THEN DecodeFail
               ELSE Decoded(JStr(SubSeq(s, i + 1, q - 1)), q + 1))
        [] c = "{" ->
             Let(SkipWs(s, i + 1), LAMBDA j :
               IF Ch(s, j) = "}" THEN Decoded(JObj(<<>>), j + 1)
               ELSE JSONObject(s, j, JObj(<<>>)))
        [] c = "[" ->
             Let(SkipWs(s, i + 1), LAMBDA j :
               IF Ch(s, j) = "]" THEN Decoded(JList(<<>>), j + 1)
               ELSE JSONArray(s, j, <<>>))
        [] c \in Digits \cup {"-"} ->
             Let(ScanNumber(s, i), LAMBDA e :
               IF e = 0 THEN DecodeFail
               ELSE Decoded(JNum(SubSeq(s, i, e - 1)), e))
        [] c = "n" /\ Slice(s, i, i + 3) = "null" -> Decoded(JNull, i + 4)
        [] c = "t" /\ Slice(s, i, i + 3) = "true" -> Decoded(JBool("true"), i + 4)
        [] c = "f" /\ Slice(s, i, i + 4) = "false" -> Decoded(JBool("false"), i + 5)
        [] OTHER -> DecodeFail)

\* the members of an object from the key at i on; acc holds those before
JSONObject(s, i, acc) ==
    Let(ScanQuote(s, i + 1), LAMBDA q :
      IF Ch(s, i) # "\"" \/ q = 0 THEN DecodeFail
      ELSE Let(SkipWs(s, q + 1), LAMBDA c :
        IF Ch(s, c) # ":" THEN DecodeFail
        ELSE Let(scan_once(s, SkipWs(s, c + 1)), LAMBDA v :
          IF ~v.ok THEN DecodeFail
          ELSE Let(DictSet(acc, SubSeq(s, i + 1, q - 1), v.val), LAMBDA a :
            Let(SkipWs(s, v.pos), LAMBDA n :
              IF Ch(s, n) = "}" THEN Decoded(a, n + 1)
              ELSE IF Ch(s, n) = "," THEN JSONObject(s, SkipWs(s, n + 1), a)
              ELSE DecodeFail)))))

\* the elements of an array from the one at i on; acc holds those before
JSONArray(s, i, acc) ==
    Let(scan_once(s, i), LAMBDA v :
      IF ~v.ok THEN DecodeFail
      ELSE Let(SkipWs(s, v.pos), LAMBDA n :
        IF Ch(s, n) = "]" THEN Decoded(JList(Append(acc, v.val)), n + 1)
        ELSE IF Ch(s, n) = "," THEN JSONArray(s, SkipWs(s, n + 1), Append(acc, v.val))
        ELSE DecodeFail))

\* json.loads(s): one value, whitespace around it, nothing else
json_loads(s) ==
    Let(scan_once(s, SkipWs(s, 1)), LAMBDA v :
      IF v.ok /\ SkipWs(s, v.pos) = Len(s) + 1 THEN v ELSE DecodeFail)

---------------------------------------------------------------------------
(* str() and repr() of a decoded value *)

RECURSIVE repr(_), JoinRepr(_, _, _)

\* repr of the elements i.. of a list or of the entries i.. of a dict
JoinRepr(items, i, isDict) ==
    IF i > Len(items) THEN ""
    ELSE (IF i > 1 THEN ", " ELSE "")
         \o (IF isDict
             THEN "'" \o items[i].s \o "': " \o repr(items[i].items[1])
             ELSE repr(items[i]))
         \o JoinRepr(items, i + 1, isDict)

repr(v) ==
    CASE v.t = "str" -> "'" \o v.s \o "'"
      [] v.t = "num" -> v.s
      [] v.t = "bool" -> IF v.s = "true" THEN "True" ELSE "False"
      [] v.t = "null" -> "None"
      [] v.t = "list" -> "[" \o JoinRepr(v.items, 1, FALSE) \o "]"
      [] v.t = "obj" -> "{" \o JoinRepr(v.items, 1, TRUE) \o "}"

str(v) == IF v.t = "str" THEN v.s ELSE repr(v)

---------------------------------------------------------------------------
(* DeepSeekClient._parse_analysis_response (clients/deepseek.py)           *)

\* what a call did: exc = "" and the value returned, or the exception raised
Returned(v) == [done |-> TRUE, exc |-> "", val |-> v]

Raised(e) == [done |-> TRUE, exc |-> e, val |-> JNull]

NotCalled == [done |-> FALSE, exc |-> "", val |-> JNull]

required_fields ==
    <<"summary", "root_cause", "evidence", "remediation_steps", "severity_assessment">>

FallbackEvidenceChars == 500

DefaultConfidence == "0.75"

\* a fallback that keeps the whole text as evidence; C8 tells it from the real one
FallbackStructureUntruncated(text) ==
    JObj(<<
        JPair("summary", JStr("Analysis parsing failed")),
        JPair("root_cause", JStr("Unable to determine - LLM response format error")),
        JPair("evidence", JList(<<JStr(text)>>)),
        JPair("remediation_steps", JList(<<
            JStr("Review the alert manually"),
            JStr("Check system logs and metrics"),
            JStr("Contact the on-call engineer")>>)),
        JPair("severity_assessment", JStr("Unknown - Manual review required")),
        JPair("confidence", JNum("0.0"))>>)

\* the except json.JSONDecodeError branch: the fixed fallback structure
FallbackStructure(text) ==
    JObj(<<
        JPair("summary", JStr("Analysis parsing failed")),
        JPair("root_cause", JStr("Unable to determine - LLM response format error")),
        JPair("evidence", JList(<<JStr(Prefix(text, FallbackEvidenceChars))>>)),
        JPair("remediation_steps", JList(<<
            JStr("Review the alert manually"),
            JStr("Check system logs and metrics"),
            JStr("Contact the on-call engineer")>>)),
        JPair("severity_assessment", JStr("Unknown - Manual review required")),
        JPair("confidence", JNum("0.0"))>>)

\* for field in required_fields: if field not in result: result[field] = ...
RECURSIVE FillRequired(_, _)
FillRequired(result, i) ==
    IF i > Len(required_fields) THEN result
    ELSE Let(IF HasKey(result, required_fields[i]) THEN result
             ELSE DictSet(result, required_fields[i], JStr("Not provided")),
             LAMBDA filled : FillRequired(filled, i + 1))

\* no coercion at all; C10 tells it from the real one
EnsureListSkipped(result, field) == result

\* if not isinstance(result.get(field), list): result[field] = [str(...)]
EnsureList(result, field) ==
    IF DictGet(result, field, JNull).t = "list" THEN result
    ELSE DictSet(result, field, JList(<<JStr(str(DictGet(result, field, JStr(""))))>>))

\* the default written over a confidence that is present; C9 tells it from the real one
AddConfidenceAlways(result) == DictSet(result, "confidence", JNum(DefaultConfidence))

\* if "confidence" not in result: result["confidence"] = 0.75
AddConfidence(result) ==
    IF HasKey(result, "confidence") THEN result
    ELSE DictSet(result, "confidence", JNum(DefaultConfidence))

\* field in result, for a decoded value that is a list or a str
MemberOf(result, field) ==
    IF result.t = "list"
    THEN \E i \in 1..Len(result.items) :
            result.items[i].t = "str" /\ result.items[i].s = field
    ELSE Contains(result.s, field)

\* the try body on a decoded value that is no dict: the exception it raises
NonDictException(result) ==
    IF result.t \in {"num", "bool", "null"} THEN "TypeError"
    ELSE IF \E i \in 1..Len(required_fields) : ~MemberOf(result, required_fields[i])
         THEN "TypeError"
         ELSE "AttributeError"

_parse_analysis_response(text) ==
    Let(json_loads(text), LAMBDA d :
      IF ~d.ok THEN Returned(FallbackStructure(text))
      ELSE IF d.val.t # "obj" THEN Raised(NonDictException(d.val))
      ELSE Let(FillRequired(d.val, 1), LAMBDA filled :
             Let(EnsureList(filled, "evidence"), LAMBDA e :
               Let(EnsureList(e, "remediation_steps"), LAMBDA r :
                 Returned(AddConfidence(r))))))

---------------------------------------------------------------------------
(* The response texts the LLM backend may return.  Number literals are     *)
(* written the way Python prints the number, so str() of a number is its   *)
(* literal.                                                                *)

RECURSIVE Rep(_, _)
Rep(s, n) ==
    IF n = 0 THEN ""
    ELSE LET h == Rep(s, n \div 2)
         IN  IF n % 2 = 0 THEN h \o h ELSE h \o h \o s

\* "key": literal members, comma separated; an empty literal leaves the key out
RECURSIVE Members(_, _, _)
Members(kvs, i, first) ==
    IF i > Len(kvs) THEN ""
    ELSE IF kvs[i][2] = "" THEN Members(kvs, i + 1, first)
    ELSE (IF first THEN "" ELSE ", ")
         \o "\"" \o kvs[i][1] \o "\": " \o kvs[i][2]
         \o Members(kvs, i + 1, FALSE)

SummaryLits == {"", "\"CPU saturated on host1\"", "null"}
RootCauseLits == {"", "\"runaway process\""}
EvidenceLits == {"", "[\"load 12\", \"oom kill\"]", "\"load 12\"", "7", "null", "[\"load 12\", 3]"}
RemediationLits == {"", "[\"restart the service\", \"add memory\"]", "\"restart the service\""}
SeverityLits == {"", "\"High - user facing\""}
ConfidenceLits == {"", "0.85", "1.5", "null", "\"high\""}
ExtraLits == {"", "\"see runbook\""}

ObjectTexts ==
    { "{" \o Members(<< <<"summary", a>>, <<"root_cause", b>>, <<"evidence", c>>,
                        <<"remediation_steps", d>>, <<"severity_assessment", e>>,
                        <<"confidence", f>>, <<"notes", g>> >>, 1, TRUE) \o "}" :
        a \in SummaryLits, b \in RootCauseLits, c \in EvidenceLits,
        d \in RemediationLits, e \in SeverityLits, f \in ConfidenceLits,
        g \in ExtraLits }

\* the longest text is this much longer than the fallback's evidence prefix
MaxOverrun == 2

NonJsonTexts ==
    { "", "I cannot analyze this alert.", "Here is the analysis: {\"summary\": \"x\"}",
      "{\"summary\": \"cut off", "{\"summary\": \"x\",}", "{'summary': 'x'}",
      "{\"summary\": \"x\"} Hope this helps", "[1, 2", "nul", "-", "01" }
    \cup { "Analysis: " \o Rep("x", n) :
             n \in (FallbackEvidenceChars - 12)..(FallbackEvidenceChars - 10 + MaxOverrun) }

NonObjectTexts ==
    { "[]", "[\"summary\"]", "42", "-0.5", "\"summary\"", "true", "false", "null",
      " [1, 2] ",
      "[\"summary\", \"root_cause\", \"evidence\", \"remediation_steps\", \"severity_assessment\"]",
      "\"summary root_cause evidence remediation_steps severity_assessment\"" }

OtherObjectTexts ==
    { "{}", " {\n  \"summary\": \"x\",\n  \"confidence\": 1\n}\n",
      "{\"summary\": \"a\", \"summary\": \"b\"}",
      "{\"evidence\": {\"cpu\": 97, \"hosts\": [\"h1\"]}}",
      "{\"evidence\": true, \"remediation_steps\": 2.5}",
      "{\"evidence\": [[\"nested\"]], \"confidence\": \"0.9\"}" }

ResponseTexts == ObjectTexts \cup OtherObjectTexts \cup NonObjectTexts \cup NonJsonTexts


---------------------------------------------------------------------------
(* Alerts (models/schemas.py Alert).  A label mapping is a sequence of     *)
(* <<key, value>> pairs in insertion order.                                *)

\* labels.get(k, default)
LabelGet(labels, k, default) ==
    IF \E i \in 1..Len(labels) : labels[i][1] = k
    THEN labels[CHOOSE i \in 1..Len(labels) : labels[i][1] = k][2]
    ELSE default

UpperCase == <<"A", "B", "C", "D", "E", "F", "G", "H", "I", "J", "K", "L", "M",
               "N", "O", "P", "Q", "R", "S", "T", "U", "V", "W", "X", "Y", "Z">>

LowerCase == <<"a", "b", "c", "d", "e", "f", "g", "h", "i", "j", "k", "l", "m",
               "n", "o", "p", "q", "r", "s", "t", "u", "v", "w", "x", "y", "z">>

LowerCh(c) ==
    IF \E i \in 1..Len(UpperCase) : UpperCase[i] = c
    THEN LowerCase[CHOOSE i \in 1..Len(UpperCase) : UpperCase[i] = c]
    ELSE c

\* s[i:].lower()
RECURSIVE LowerFrom(_, _)
LowerFrom(s, i) == IF i > Len(s) THEN "" ELSE LowerCh(Ch(s, i)) \o LowerFrom(s, i + 1)

\* s.lower()
lower(s) == LowerFrom(s, 1)

\* s.split(sep)[0], sep one character
RECURSIVE SplitFirst(_, _, _)
SplitFirst(s, sep, i) ==
    IF i > Len(s) THEN s
    ELSE IF Ch(s, i) = sep THEN SubSeq(s, 1, i - 1)
    ELSE SplitFirst(s, sep, i + 1)

\* queries[name] = query, on a sequence of <<name, query>> pairs
QuerySet(queries, name, query) ==
    IF \E i \in 1..Len(queries) : queries[i][1] = name
    THEN [i \in 1..Len(queries) |->
            IF queries[i][1] = name THEN <<name, query>> ELSE queries[i]]
    ELSE Append(queries, <<name, query>>)

---------------------------------------------------------------------------
(* PrometheusClient._build_queries_from_labels (clients/prometheus.py)     *)

\* a match that compares the alert name as it is written; C17 tells it from
\* the real one
PromMatchesCaseSensitive(labels, word) ==
    LabelGet(labels, "component", "") = word
      \/ Contains(LabelGet(labels, "alertname", ""), word)

\* component == word or word in labels.get("alertname", "").lower()
PromMatches(labels, word) ==
    LabelGet(labels, "component", "") = word
      \/ Let(lower(LabelGet(labels, "alertname", "")), LAMBDA name : Contains(name, word))

\* an availability query for a job only; C29 tells it from the real one
InstanceUpForJobOnly(job, instance) ==
    IF job # "" THEN << <<"instance_up", "up{job=\"" \o job \o "\"}">> >> ELSE <<>>

\* if job: ... elif instance: ...
InstanceUp(job, instance) ==
    IF job # "" THEN << <<"instance_up", "up{job=\"" \o job \o "\"}">> >>
    ELSE IF instance # ""
    THEN << <<"instance_up", "up{instance=\"" \o instance \o "\"}">> >>
    ELSE <<>>

Prometheus_build_queries_from_labels(labels) ==
    LET instance == LabelGet(labels, "instance", "")
        job == LabelGet(labels, "job", "")
        \* each key is assigned once, so the assignments in order are the dict
        cpu ==
            IF ~PromMatches(labels, "cpu") THEN <<>>
            ELSE IF instance # ""
            THEN << <<"cpu_usage",
                      "100 - (avg by(instance) (irate(node_cpu_seconds_total{mode=\"idle\",instance=\""
                        \o instance \o "\"}[5m])) * 100)">>,
                    <<"cpu_by_mode",
                      "irate(node_cpu_seconds_total{instance=\"" \o instance \o "\"}[5m])">> >>
            ELSE << <<"cpu_usage",
                      "100 - (avg by(instance) (irate(node_cpu_seconds_total{mode=\"idle\"}[5m])) * 100)">> >>
        memory ==
            IF ~PromMatches(labels, "memory") THEN <<>>
            ELSE IF instance # ""
            THEN << <<"memory_usage",
                      "(1 - (node_memory_MemAvailable_bytes{instance=\"" \o instance
                        \o "\"} / node_memory_MemTotal_bytes{instance=\"" \o instance
                        \o "\"})) * 100">>,
                    <<"memory_details",
                      "node_memory_MemAvailable_bytes{instance=\"" \o instance \o "\"}">> >>
            ELSE << <<"memory_usage",
                      "(1 - (node_memory_MemAvailable_bytes / node_memory_MemTotal_bytes)) * 100">> >>
        disk ==
            IF ~PromMatches(labels, "disk") THEN <<>>
            ELSE IF instance # ""
            THEN << <<"disk_usage",
                      "(1 - (node_filesystem_avail_bytes{instance=\"" \o instance
                        \o "\",fstype!=\"tmpfs\"} / node_filesystem_size_bytes{instance=\""
                        \o instance \o "\",fstype!=\"tmpfs\"})) * 100">> >>
            ELSE << <<"disk_usage",
                      "(1 - (node_filesystem_avail_bytes{fstype!=\"tmpfs\"} / node_filesystem_size_bytes{fstype!=\"tmpfs\"})) * 100">> >>
        up == InstanceUp(job, instance)
        node ==
            IF instance = "" THEN <<>>
            ELSE << <<"load_average", "node_load1{instance=\"" \o instance \o "\"}">>,
                    <<"network_receive",
                      "irate(node_network_receive_bytes_total{instance=\"" \o instance \o "\"}[5m])">>,
                    <<"network_transmit",
                      "irate(node_network_transmit_bytes_total{instance=\"" \o instance \o "\"}[5m])">>,
                    <<"disk_read",
                      "irate(node_disk_read_bytes_total{instance=\"" \o instance \o "\"}[5m])">>,
                    <<"disk_write",
                      "irate(node_disk_written_bytes_total{instance=\"" \o instance \o "\"}[5m])">> >>
        queries == cpu \o memory \o disk \o up \o node
    IN  \* if not queries and instance
        IF Len(queries) = 0 /\ instance # ""
        THEN QuerySet(<<>>, "instance_up", "up{instance=\"" \o instance \o "\"}")
        ELSE queries

---------------------------------------------------------------------------
(* LokiClient._build_queries_from_labels (clients/loki.py)                 *)

\* the queries for the service, job and instance labels
LabelLogQueries(labels) ==
    LET service == LabelGet(labels, "service", "")
        job == LabelGet(labels, "job", "")
        instance == LabelGet(labels, "instance", "")
        service_logs ==
            IF service = "" THEN <<>>
            ELSE << <<"service_all_logs", "{service=\"" \o service \o "\"}">>,
                    <<"service_errors",
                      "{service=\"" \o service \o "\"} |~ \"(?i)(error|exception|fatal|critical)\"">>,
                    <<"service_warnings",
                      "{service=\"" \o service \o "\"} |~ \"(?i)(warn|warning)\"">> >>
        job_logs ==
            IF job = "" THEN <<>>
            ELSE << <<"job_logs", "{job=\"" \o job \o "\"}">>,
                    <<"job_errors", "{job=\"" \o job \o "\"} |~ \"(?i)(error|exception|fatal)\"">> >>
        container_logs ==
            IF service = "" THEN <<>>
            ELSE << <<"container_logs", "{container=~\".*" \o service \o ".*\"}">>,
                    <<"container_errors",
                      "{container=~\".*" \o service \o ".*\"} |~ \"(?i)(error|exception|failed|fatal)\"">> >>
        instance_logs ==
            IF instance = "" THEN <<>>
            ELSE << <<"instance_logs",
                      "{instance=~\".*" \o SplitFirst(instance, ":", 1) \o ".*\"}">> >>
    IN  service_logs \o job_logs \o container_logs \o instance_logs

\* the queries for when no label gave one
GenericLogQueries ==
    << <<"all_errors", "{job=~\".+\"} |~ \"(?i)(error|exception|fatal|critical)\"">>,
       <<"all_warnings", "{job=~\".+\"} |~ \"(?i)(warn|warning)\"">> >>

\* a builder that adds the generic queries to any others; C28 tells it from
\* the real one
Loki_build_queries_always_generic(labels) ==
    LabelLogQueries(labels) \o GenericLogQueries

Loki_build_queries_from_labels(labels) ==
    Let(LabelLogQueries(labels), LAMBDA queries :
      \* if not queries
      IF Len(queries) = 0 THEN GenericLogQueries ELSE queries)

---------------------------------------------------------------------------
(* DeepSeekClient._format_metrics_for_prompt and _format_logs_for_prompt,  *)
(* called by _build_analysis_prompt.  A dict is the sequence of its        *)
(* <<key, value>> items in insertion order; each function builds the list  *)
(* formatted and returns "\n".join(formatted).                             *)

VARIABLES
    metrics_data,   \* the metrics handed to _build_analysis_prompt
    logs_data,      \* the logs handed to it
    prompt          \* metrics_summary and logs_summary, once formatted

\* str(n) of an int n >= 0
RECURSIVE IntStr(_)
IntStr(n) ==
    IF n < 10 THEN SubSeq("0123456789", n + 1, n + 1)
    ELSE IntStr(n \div 10) \o SubSeq("0123456789", (n % 10) + 1, (n % 10) + 1)

\* sep.join(lines[i:])
RECURSIVE JoinFrom(_, _, _)
JoinFrom(sep, lines, i) ==
    IF i > Len(lines) THEN ""
    ELSE IF i = Len(lines) THEN lines[i]
    ELSE lines[i] \o sep \o JoinFrom(sep, lines, i + 1)

\* sep.join(lines)
Join(sep, lines) == JoinFrom(sep, lines, 1)

\* results[:3]
MaxRenderedSeries == 3

\* log_entries[:10]
MaxRenderedEntries == 10

\* len(line) > 200, line[:200]
MaxLineChars == 200

\* [f"{k}={v}" for k, v in metric_labels.items() if k != "__name__"] from item i on
RECURSIVE LabelPairs(_, _)
LabelPairs(metric_labels, i) ==
    IF i > Len(metric_labels) THEN <<>>
    ELSE (IF metric_labels[i][1] # "__name__"
          THEN <<metric_labels[i][1] \o "=" \o metric_labels[i][2]>>
          ELSE <<>>)
           \o LabelPairs(metric_labels, i + 1)

\* a series whose middle sample is taken one place too early; C16 tells it
\* from the real one
FormatSeriesMiddleOff(result) ==
    Let(result.values, LAMBDA values :
      IF values = <<>> THEN <<>>
      ELSE << "  - " \o Join(", ", LabelPairs(result.metric, 1)),
              "    Start: " \o values[1][2]
                \o ", Mid: " \o values[(Len(values) + 1) \div 2][2]
                \o ", End: " \o values[Len(values)][2]
                \o " (" \o IntStr(Len(values)) \o " data points)" >>)

\* the body of the loop over results[:3]: the lines appended for one series;
\* values[k] of the code is values[k + 1] here
FormatSeries(result) ==
    Let(result.values, LAMBDA values :
      IF values = <<>> THEN <<>>
      ELSE Let(values[1][2], LAMBDA first_val :
             << "  - " \o Join(", ", LabelPairs(result.metric, 1)),
                "    Start: " \o first_val
                  \o ", Mid: " \o (IF Len(values) > 1
                                   THEN values[(Len(values) \div 2) + 1][2]
                                   ELSE first_val)
                  \o ", End: " \o values[Len(values)][2]
                  \o " (" \o IntStr(Len(values)) \o " data points)" >>))

\* for result in results[:3], from series j on
RECURSIVE FormatSeriesFrom(_, _)
FormatSeriesFrom(results, j) ==
    IF j > Min(Len(results), MaxRenderedSeries) THEN <<>>
    ELSE FormatSeries(results[j]) \o FormatSeriesFrom(results, j + 1)

\* for metric_name, results in metrics_data.items(), from item i on
RECURSIVE FormatMetricsFrom(_, _)
FormatMetricsFrom(metrics, i) ==
    IF i > Len(metrics) THEN <<>>
    ELSE <<"\n**" \o metrics[i][1] \o ":**">>
           \o FormatSeriesFrom(metrics[i][2], 1)
           \o FormatMetricsFrom(metrics, i + 1)

_format_metrics_for_prompt(metrics) ==
    IF metrics = <<>> THEN "No metrics data available."
    ELSE Let(FormatMetricsFrom(metrics, 1), LAMBDA formatted :
           IF formatted = <<>> THEN "No metric results found."
           ELSE Join("\n", formatted))

\* an entry rendered with its whole line; C15 tells it from the real one
FormatEntryUncut(entry) ==
    "  [" \o entry.timestamp \o "] " \o entry.line

\* the body of the loop over log_entries[:10]: the line appended for one entry
FormatEntry(entry) ==
    "  [" \o entry.timestamp \o "] "
      \o (IF Len(entry.line) > MaxLineChars
          THEN SubSeq(entry.line, 1, MaxLineChars) \o "..."
          ELSE entry.line)

\* for entry in log_entries[:10], from entry i on
RECURSIVE FormatEntries(_, _)
FormatEntries(log_entries, i) ==
    IF i > Min(Len(log_entries), MaxRenderedEntries) THEN <<>>
    ELSE <<FormatEntry(log_entries[i])>> \o FormatEntries(log_entries, i + 1)

\* what the loop body appends for one batch that is not empty
FormatBatch(log_query, log_entries) ==
    <<"\n**" \o log_query \o "** (" \o IntStr(Len(log_entries)) \o " entries):">>
      \o FormatEntries(log_entries, 1)
      \o (IF Len(log_entries) > MaxRenderedEntries
          THEN <<"  ... and " \o IntStr(Len(log_entries) - MaxRenderedEntries)
                   \o " more entries">>
          ELSE <<>>)

\* for log_query, log_entries in logs_data.items(), from item i on, with
\* formatted and total_logs as they stand
RECURSIVE FormatLogsFrom(_, _, _)
FormatLogsFrom(logs, i, acc) ==
    IF i > Len(logs) THEN acc
    ELSE IF logs[i][2] = <<>> THEN FormatLogsFrom(logs, i + 1, acc)
    ELSE FormatLogsFrom(logs, i + 1,
           [formatted |-> acc.formatted \o FormatBatch(logs[i][1], logs[i][2]),
            total_logs |-> acc.total_logs + Len(logs[i][2])])

_format_logs_for_prompt(logs) ==
    IF logs = <<>> THEN "No log data available."
    ELSE Let(FormatLogsFrom(logs, 1, [formatted |-> <<>>, total_logs |-> 0]), LAMBDA r :
           IF r.formatted = <<>> THEN "No relevant logs found."
           ELSE Join("\n", <<"Total log entries: " \o IntStr(r.total_logs)>> \o r.formatted))

NoPrompt == [metrics_summary |-> "", logs_summary |-> ""]

---------------------------------------------------------------------------
(* NotificationService._build_slack_message *)

UpperCh(c) ==
    IF \E i \in 1..Len(LowerCase) : LowerCase[i] = c
    THEN UpperCase[CHOOSE i \in 1..Len(LowerCase) : LowerCase[i] = c]
    ELSE c

\* s[i:].upper()
RECURSIVE UpperFrom(_, _)
UpperFrom(s, i) == IF i > Len(s) THEN "" ELSE UpperCh(Ch(s, i)) \o UpperFrom(s, i + 1)

\* s.upper()
upper(s) == UpperFrom(s, 1)

\* analysis.evidence[:5]
MaxEvidenceBullets == 5

\* what the source file has in front of {ev}
Bullet == "â€¢ "

\* the four characters the source file has in front of Alert Analysis,
\* spelt by their code points
Siren == "<U+00F0><U+0178><U+0161><U+00A8>"

color_map == << <<"critical", "#d32f2f">>, <<"warning", "#f57c00">>, <<"info", "#1976d2">> >>

\* a colour looked up with the severity as it is spelt; C33 tells it from the
\* real one
SlackColorAsSpelt(severity) == LabelGet(color_map, severity, "#757575")

\* color_map.get(payload.severity.lower(), "#757575")
SlackColor(severity) == LabelGet(color_map, lower(severity), "#757575")

\* [f"<bullet> {ev}" for ev in analysis.evidence[:5]]
EvidenceLines(evidence) ==
    [i \in 1..Min(Len(evidence), MaxEvidenceBullets) |-> Bullet \o evidence[i]]

\* [f"{i+1}. {step}" for i, step in enumerate(analysis.remediation_steps)]
RemediationLines(steps) ==
    [i \in 1..Len(steps) |-> IntStr(i) \o ". " \o steps[i]]

\* the colour of the attachment and the texts of its blocks; the confidence
\* field and the footer are left out
_build_slack_message(p) ==
    [color |-> SlackColor(p.severity),
     header |-> Siren \o " Alert Analysis: " \o p.alert_name,
     severity |-> "*Severity:*\n" \o upper(p.severity),
     summary |-> "*Summary:*\n" \o p.analysis.summary,
     root_cause |-> "*Root Cause:*\n" \o p.analysis.root_cause,
     evidence |-> "*Evidence:*\n" \o Join("\n", EvidenceLines(p.analysis.evidence)),
     remediation |-> "*Remediation Steps:*\n"
                       \o Join("\n", RemediationLines(p.analysis.remediation_steps)),
     severity_assessment |-> "*Severity Assessment:*\n" \o p.analysis.severity_assessment]

NoPayload == <<>>

NoMessage == <<>>

---------------------------------------------------------------------------
(* The data the formatters are applied to *)

\* the number of queries in metrics_data or logs_data
MaxBatches == 2

\* how far a batch or a list of series goes beyond what is rendered
MaxMore == 2

\* the sequences of at most n elements of S
RECURSIVE SeqsUpTo(_, _)
SeqsUpTo(S, n) ==
    IF n = 0 THEN {<<>>}
    ELSE LET shorter == SeqsUpTo(S, n - 1)
         IN  shorter \cup {Append(q, x) : q \in shorter, x \in S}

MetricKeys == <<"cpu_usage", "instance_up", "load_average", "disk_read">>

LogKeys == <<"job_logs", "job_errors", "instance_logs", "all_errors">>

\* a short line, lines of 200 and of 201 characters, and one of 300
LogLineTexts ==
    { "disk full",
      Rep("a", MaxLineChars - 1) \o "b",
      Rep("a", MaxLineChars - 1) \o "bc",
      Rep("a", MaxLineChars - 1) \o "b" \o Rep("c", 100) }

\* the entries LokiClient._parse_loki_response builds: n of them with this line
LogEntries(n, line) ==
    [i \in 1..n |-> [timestamp |-> "2024-01-01T00:00:" \o IntStr(10 + i), line |-> line]]

EntryCounts == {0, 1, 25} \cup ((MaxRenderedEntries - 1)..(MaxRenderedEntries + MaxMore))

LogBatches == { LogEntries(n, line) : n \in EntryCounts, line \in LogLineTexts }

\* the dicts with up to MaxBatches items whose values come from S
DictsOf(keys, S) ==
    { [i \in 1..Len(q) |-> <<keys[i], q[i]>>] : q \in SeqsUpTo(S, MaxBatches) }

LogInputs == DictsOf(LogKeys, LogBatches)

\* a series of a query_range result with n samples [timestamp, value]
Series(n) ==
    [metric |-> << <<"__name__", "up">>, <<"instance", "host1:9100">>, <<"job", "node">> >>,
     values |-> [i \in 1..n |-> <<1700000000 + 15 * i, "0." \o IntStr(i)>>]]

\* k series, of which the j-th has (first + j) % (MaxRenderedSeries + MaxMore + 1) samples
SeriesList(k, first) ==
    [j \in 1..k |-> Series((first + j) % (MaxRenderedSeries + MaxMore + 1))]

MetricResults ==
    { SeriesList(k, first) : k \in 0..(MaxRenderedSeries + MaxMore),
                             first \in 0..(MaxRenderedSeries + MaxMore) }

MetricInputs == DictsOf(MetricKeys, MetricResults)

---------------------------------------------------------------------------
(* The running application (app.py): settings, the alert queue, and the    *)
(* coroutines that run AlertAnalyzer.analyze_alert.  A coroutine's pc      *)
(* names the network call it is suspended in; everything a coroutine does  *)
(* between two suspensions is one step.                                    *)

VARIABLES
    settings,          \* config.py: which of the API key and the webhook URLs are set
    alert_queue,       \* app.py alert_queue: the alerts waiting, oldest first
    unfinished_tasks,  \* the queue's count of put() not yet matched by task_done()
    task,              \* per coroutine: where it is suspended and its working data
    hist,              \* per submitted alert: what was done for it (history)
    running,           \* FALSE once lifespan has shut the application down
    loop_failed,       \* <<n>> once the loop of process_alert_queue has failed outside
                       \* an alert's processing, n alerts submitted before (history)
    backend,           \* the answers the two backends give to the queries of an alert
                       \* in turn, when they are laid down in advance
    streams,           \* data.result of a response of the log backend
    payload,           \* the NotificationPayload given to _build_slack_message
    message            \* what _build_slack_message returned

\* the total number of alerts submitted through all entry points
MaxAlerts == 2

stop_after_attempt == 3

Tasks == {"worker", "manual", "batch"}

\* class Alert, with id for the place of the alert in the history
Alert(status, labels) ==
    [id |-> 0, status |-> status, labels |-> labels,
     annotations |-> << <<"summary", "CPU above 90%">>,
                        <<"description", "CPU usage has been high for 5 minutes">> >>,
     startsAt |-> "2024-01-01T00:00:00Z",
     endsAt |-> "0001-01-01T00:00:00Z",
     generatorURL |-> "http://prometheus:9090/graph"]

NoAlert ==
    [id |-> 0, status |-> "", labels |-> <<>>, annotations |-> <<>>,
     startsAt |-> "", endsAt |-> "", generatorURL |-> ""]

CpuLabels == << <<"alertname", "HighCPU">>, <<"severity", "critical">>, <<"job", "node">> >>

\* labels from which no metric query is built
WatchdogLabels == << <<"alertname", "Watchdog">> >>

AlertPool == { Alert("firing", CpuLabels), Alert("resolved", WatchdogLabels) }

\* a label of an alert, or none when the value is empty
OptionalLabel(key, value) == IF value = "" THEN <<>> ELSE << <<key, value>> >>

\* the labels of alerts about a host: with and without the component, the
\* instance and the job, the word cpu in the name in three spellings or not
\* at all
HostLabelSets ==
    { OptionalLabel("alertname", alertname) \o OptionalLabel("component", component)
        \o OptionalLabel("instance", instance) \o OptionalLabel("job", job) :
        alertname \in {"HighCPU", "cpu_load", "HostCpuHot", "NodeDown"},
        component \in {"", "cpu"},
        instance \in {"", "host1:9100"},
        job \in {"", "node"} }

Settings == [api_key : BOOLEAN, slack_webhook_url : BOOLEAN, generic_webhook_url : BOOLEAN]

NoResult == <<>>

IdleRun ==
    [pc |-> "idle", alert |-> NoAlert, pending |-> <<>>, metrics |-> <<>>,
     logs |-> <<>>, qfail |-> FALSE, prompt |-> NoPrompt, attempt |-> 0,
     result |-> NoResult, success |-> FALSE, rest |-> <<>>]

\* the history of one alert, as it is submitted
NewHist(entry, alert) ==
    [entry |-> entry, status |-> alert.status, labels |-> alert.labels,
     alert |-> alert, dequeued |-> 0, prom |-> 0,
     loki |-> 0, llm |-> 0, llm_first |-> "", llm_503 |-> 0, got_text |-> FALSE,
     outcome |-> "", posts |-> 0, slack |-> "", webhook |-> "",
     sent |-> "", reply |-> "", acks |-> 0]

World == [queue |-> alert_queue, unfinished |-> unfinished_tasks, task |-> task, hist |-> hist]

---------------------------------------------------------------------------
(* Replies of the three backends *)

PromReplies ==
    { [kind |-> "success", result |-> <<"series">>],
      [kind |-> "success", result |-> <<>>],
      [kind |-> "not_success", result |-> <<>>],
      [kind |-> "http_error", result |-> <<>>],
      [kind |-> "exception", result |-> <<>>] }

LokiReplies ==
    { [kind |-> "success", result |-> <<"entry">>],
      [kind |-> "success", result |-> <<>>],
      [kind |-> "not_success", result |-> <<>>],
      [kind |-> "http_error", result |-> <<>>],
      [kind |-> "exception", result |-> <<>>] }

GoodText ==
    "{\"summary\": \"CPU saturated on host1\", \"root_cause\": \"runaway process\", "
    \o "\"evidence\": [\"load 12\", \"oom kill\"], "
    \o "\"remediation_steps\": [\"restart the service\", \"add memory\"], "
    \o "\"severity_assessment\": \"High - user facing\", \"confidence\": 0.85}"

NullSummaryText ==
    "{\"summary\": null, \"root_cause\": \"runaway process\", \"evidence\": [\"load 12\", \"oom kill\"]}"

ProseText == "I cannot analyze this alert."

ArrayText == "[]"

OverconfidentText ==
    "{\"summary\": \"disk almost full\", \"root_cause\": \"log growth\", \"confidence\": 1.5}"

PipelineTexts == {GoodText, NullSummaryText, ProseText, ArrayText, OverconfidentText}

\* what the LLM backend does with one request
LLMReplies ==
    { [kind |-> "200", text |-> x] : x \in PipelineTexts }
    \cup { [kind |-> k, text |-> ""] :
             k \in {"401", "429", "503", "500", "no_choices", "timeout", "transport"} }

---------------------------------------------------------------------------
(* PrometheusClient.query_range and LokiClient.query_range: the list the   *)
(* call returns for a reply of the backend                                 *)

Prometheus_query_range(reply) ==
    IF reply.kind = "success" THEN reply.result ELSE <<>>

Loki_query_range(reply) ==
    IF reply.kind = "success" THEN reply.result ELSE <<>>

QueryFailed(reply) == reply.kind # "success"

---------------------------------------------------------------------------
(* DeepSeekClient._call_api and analyze_alert with its retry wrapper       *)

\* _call_api once the backend has replied: the content, or what it raises
_call_api(reply) ==
    CASE reply.kind = "200" -> Returned(JStr(reply.text))
      [] reply.kind \in {"401", "429", "503", "no_choices"} -> Raised("ValueError")
      [] reply.kind = "500" -> Raised("HTTPStatusError")
      [] reply.kind = "timeout" -> Raised("TimeoutException")
      [] OTHER -> Raised("ConnectError")

\* _parse_analysis_response on the texts the backend of the pipeline sends,
\* as a table, so that each text is parsed once
ParsedTexts == [x \in PipelineTexts |-> _parse_analysis_response(x)]

\* the body of analyze_alert after _call_api: its except Exception returns None
DeepSeek_analyze_alert(api) ==
    IF api.exc # "" THEN Returned(JNull)
    ELSE Let(IF api.val.s \in PipelineTexts THEN ParsedTexts[api.val.s]
             ELSE _parse_analysis_response(api.val.s), LAMBDA p :
           IF p.exc # "" THEN Returned(JNull) ELSE p)

\* a retry of every analysis that gave nothing, whatever the reason; C21
\* tells it from the real one
ShouldRetryOnNone(body, attempt) ==
    (body.exc # "" \/ body.val = JNull) /\ attempt < stop_after_attempt

\* tenacity: call again when the body raised and attempts are left
ShouldRetry(body, attempt) == body.exc # "" /\ attempt < stop_after_attempt

---------------------------------------------------------------------------
(* AlertAnalyzer.analyze_alert step 5: AnalysisResult(...) and its         *)
(* validation (models/schemas.py)                                          *)

IsStrList(v) ==
    v.t = "list" /\ \A i \in 1..Len(v.items) : v.items[i].t = "str"

\* a value the float field accepts
IsFloat(v) ==
    \/ v.t \in {"num", "bool"}
    \/ v.t = "str" /\ v.s # "" /\ ScanNumber(v.s, 1) = Len(v.s) + 1

Strings(v) == [i \in 1..Len(v.items) |-> v.items[i].s]

\* not analysis
Falsy(v) ==
    \/ v.t = "null"
    \/ v.t \in {"obj", "list"} /\ v.items = <<>>
    \/ v.t = "str" /\ v.s = ""
    \/ v.t = "bool" /\ v.s = "false"

\* the AnalysisResult built from the analysis dict, NoResult when validation fails
BuildAnalysisResult(alert, analysis) ==
    LET summary == DictGet(analysis, "summary", JStr(""))
        root_cause == DictGet(analysis, "root_cause", JStr(""))
        evidence == DictGet(analysis, "evidence", JList(<<>>))
        steps == DictGet(analysis, "remediation_steps", JList(<<>>))
        assessment == DictGet(analysis, "severity_assessment", JStr(""))
        confidence == DictGet(analysis, "confidence", JNum("0.0"))
    IN  IF /\ summary.t = "str" /\ root_cause.t = "str" /\ assessment.t = "str"
           /\ IsStrList(evidence) /\ IsStrList(steps) /\ IsFloat(confidence)
        THEN << [alert_name |-> LabelGet(alert.labels, "alertname", "Unknown"),
                 severity |-> LabelGet(alert.labels, "severity", "unknown"),
                 summary |-> summary.s,
                 root_cause |-> root_cause.s,
                 evidence |-> Strings(evidence),
                 remediation_steps |-> Strings(steps),
                 severity_assessment |-> assessment.s,
                 confidence |-> confidence.s] >>
        ELSE NoResult

---------------------------------------------------------------------------
(* Steps of the coroutines, as functions from the state w they find to the *)
(* state they leave at their next suspension                               *)

SetRun(w, t, r) == [w EXCEPT !.task[t] = r]

Mark(w, id, field, value) == [w EXCEPT !.hist[id][field] = value]

Count(w, id, field) == [w EXCEPT !.hist[id][field] = @ + 1]

\* an acknowledgement left out for an alert whose analysis gave nothing; C34
\* tells it from the real one
task_done_after_result(w, id) ==
    IF w.hist[id].outcome = "none" THEN w
    ELSE [w EXCEPT !.unfinished = @ - 1, !.hist[id].acks = @ + 1]

\* alert_queue.task_done()
task_done(w, id) == [w EXCEPT !.unfinished = @ - 1, !.hist[id].acks = @ + 1]

\* a log gatherer that fills in a job label the alert came without; C32
\* tells it from the real one
get_logs_for_alert_filling_labels(w0, t) ==
    Let(w0, LAMBDA w :
      Let(w.task[t], LAMBDA run :
        Count(SetRun(w, t, [run EXCEPT
                  !.pc = "loki",
                  !.pending = Loki_build_queries_from_labels(run.alert.labels),
                  !.alert.labels =
                      IF \E i \in 1..Len(@) : @[i][1] = "job" THEN @
                      ELSE Append(@, <<"job", "">>)]),
              run.alert.id, "loki")))

\* LokiClient.get_logs_for_alert up to its first query_range request
get_logs_for_alert(w0, t) ==
    Let(w0, LAMBDA w :
      Let(w.task[t], LAMBDA run :
        Count(SetRun(w, t, [run EXCEPT
                  !.pc = "loki",
                  !.pending = Loki_build_queries_from_labels(run.alert.labels)]),
              run.alert.id, "loki")))

\* AlertAnalyzer.analyze_alert up to its first request:
\* PrometheusClient.get_metrics_for_alert, then the logs when no metric query was built
analyze_alert(w0, t, alert0) ==
    Let(w0, LAMBDA w :
      Let(alert0, LAMBDA alert :
        Let(Prometheus_build_queries_from_labels(alert.labels), LAMBDA queries :
          Let([IdleRun EXCEPT !.alert = alert, !.rest = w.task[t].rest], LAMBDA run :
            IF queries # <<>>
            THEN Count(SetRun(w, t, [run EXCEPT !.pc = "prom", !.pending = queries]),
                       alert.id, "prom")
            ELSE get_logs_for_alert(SetRun(w, t, run), t)))))

\* a worker that takes the alert put on the queue last; C24 tells it from
\* the real one
process_alert_queue_newest_first(w0) ==
    Let(w0, LAMBDA w :
      IF w.queue = <<>> THEN SetRun(w, "worker", IdleRun)
      ELSE analyze_alert(Count([w EXCEPT !.queue = SubSeq(@, 1, Len(@) - 1)],
                               w.queue[Len(w.queue)].id, "dequeued"),
                         "worker", w.queue[Len(w.queue)]))

\* process_alert_queue at the top of its loop: alert_queue.get() suspends on an
\* empty queue, and otherwise hands over the oldest alert at once
process_alert_queue(w0) ==
    Let(w0, LAMBDA w :
      IF w.queue = <<>> THEN SetRun(w, "worker", IdleRun)
      ELSE analyze_alert(Count([w EXCEPT !.queue = Tail(@)], Head(w.queue).id, "dequeued"),
                         "worker", Head(w.queue)))

\* the for loop of AlertAnalyzer.batch_analyze_alerts from its next alert on
RECURSIVE batch_analyze_alerts(_)
batch_analyze_alerts(w0) ==
    Let(w0, LAMBDA w :
      Let(w.task["batch"].rest, LAMBDA rest :
        IF rest = <<>> THEN SetRun(w, "batch", IdleRun)
        ELSE IF Head(rest).status = "resolved"
        THEN batch_analyze_alerts(
               Mark([w EXCEPT !.task["batch"].rest = Tail(rest)],
                    Head(rest).id, "outcome", "skipped"))
        ELSE analyze_alert([w EXCEPT !.task["batch"].rest = Tail(rest)],
                           "batch", Head(rest))))

\* what a channel's sender returned, as the history keeps it
Delivery(ok) == IF ok THEN "ok" ELSE "failed"

\* a worker that puts an alert back on the queue when no channel took its
\* notification; C23 tells it from the real one
AfterSendRequeueing(w0, t, success) ==
    Let(w0, LAMBDA w :
      Let(w.task[t].alert.id, LAMBDA id :
        Let(Mark(w, id, "sent", IF success THEN "ok" ELSE "failed"), LAMBDA w1 :
          IF t = "worker"
          THEN process_alert_queue(task_done(
                 IF success THEN w1
                 ELSE [w1 EXCEPT !.queue = Append(@, w.task[t].alert),
                                 !.unfinished = @ + 1], id))
          ELSE SetRun(Mark(w1, id, "reply", "200"), t, IdleRun))))

\* a POST /analyze that answers 500 when no channel took the notification;
\* C19 tells it from the real one
AfterSendStrict(w0, t, success) ==
    Let(w0, LAMBDA w :
      Let(w.task[t].alert.id, LAMBDA id :
        Let(Mark(w, id, "sent", IF success THEN "ok" ELSE "failed"), LAMBDA w1 :
          IF t = "worker" THEN process_alert_queue(task_done(w1, id))
          ELSE SetRun(Mark(w1, id, "reply", IF success THEN "200" ELSE "500"), t, IdleRun))))

\* what the caller of send_analysis does with its return value
AfterSend(w0, t, success) ==
    Let(w0, LAMBDA w :
      Let(w.task[t].alert.id, LAMBDA id :
        Let(Mark(w, id, "sent", IF success THEN "ok" ELSE "failed"), LAMBDA w1 :
          IF t = "worker" THEN process_alert_queue(task_done(w1, id))
          ELSE SetRun(Mark(w1, id, "reply", "200"), t, IdleRun))))

\* a worker that does not wait for the notification before it takes the next
\* alert; C1 tells it from the real one
send_analysis_detached(w0, t) ==
    Let(w0, LAMBDA w :
      IF t = "worker" THEN process_alert_queue(task_done(w, w.task[t].alert.id))
      ELSE SetRun(Mark(w, w.task[t].alert.id, "reply", "200"), t, IdleRun))

\* a send_analysis that reports failure when no channel is configured; C11
\* tells it from the real one
send_analysis_unconfigured_fails(w0, t) ==
    Let(w0, LAMBDA w :
      Let(w.task[t], LAMBDA run :
        IF settings.slack_webhook_url
        THEN Count(SetRun(w, t, [run EXCEPT !.pc = "slack", !.success = FALSE]),
                   run.alert.id, "posts")
        ELSE IF settings.generic_webhook_url
        THEN Count(SetRun(w, t, [run EXCEPT !.pc = "webhook", !.success = FALSE]),
                   run.alert.id, "posts")
        ELSE AfterSend(w, t, FALSE)))

\* NotificationService.send_analysis up to its first request
send_analysis(w0, t) ==
    Let(w0, LAMBDA w :
      Let(w.task[t], LAMBDA run :
        IF settings.slack_webhook_url
        THEN Count(SetRun(w, t, [run EXCEPT !.pc = "slack", !.success = FALSE]),
                   run.alert.id, "posts")
        ELSE IF settings.generic_webhook_url
        THEN Count(SetRun(w, t, [run EXCEPT !.pc = "webhook", !.success = FALSE]),
                   run.alert.id, "posts")
        ELSE AfterSend(w, t, TRUE)))

\* a caller that stops for good when an analysis fails; C2 tells it from the real one
AfterAnalyzeHalting(w0, t, result0) ==
    Let(w0, LAMBDA w :
      IF result0 = NoResult
      THEN SetRun(Mark(w, w.task[t].alert.id, "outcome", "none"),
                  t, [w.task[t] EXCEPT !.pc = "halted"])
      ELSE send_analysis(SetRun(Mark(w, w.task[t].alert.id, "outcome", "result"),
                                t, [w.task[t] EXCEPT !.result = result0, !.qfail = FALSE,
                                                   !.prompt = NoPrompt]),
                         t))

\* a caller that sends the notification without looking at the result; C13
\* tells it from the real one
AfterAnalyzeNotifyingAlways(w0, t, result0) ==
    Let(w0, LAMBDA w :
      Let(result0, LAMBDA result :
        Let(w.task[t], LAMBDA run :
          Let(SetRun(Mark(w, run.alert.id, "outcome",
                          IF result = NoResult THEN "none" ELSE "result"),
                     t, [run EXCEPT !.result = result, !.qfail = FALSE, !.prompt = NoPrompt]),
              LAMBDA w1 :
                IF t \in {"worker", "manual"} THEN send_analysis(w1, t)
                ELSE batch_analyze_alerts(w1)))))

\* what the caller of AlertAnalyzer.analyze_alert does with the result
AfterAnalyze(w0, t, result0) ==
    Let(w0, LAMBDA w :
      Let(result0, LAMBDA result :
        Let(w.task[t], LAMBDA run :
          Let(SetRun(Mark(w, run.alert.id, "outcome",
                          IF result = NoResult THEN "none" ELSE "result"),
                     t, [run EXCEPT !.result = result, !.qfail = FALSE, !.prompt = NoPrompt]),
              LAMBDA w1 :
                CASE t = "worker" ->
                       IF result # NoResult THEN send_analysis(w1, t)
                       ELSE process_alert_queue(task_done(w1, run.alert.id))
                  [] t = "manual" ->
                       IF result # NoResult THEN send_analysis(w1, t)
                       ELSE SetRun(Mark(w1, run.alert.id, "reply", "500"), t, IdleRun)
                  [] OTHER -> batch_analyze_alerts(w1)))))

RECURSIVE CallLLM(_, _, _)

\* one attempt of DeepSeekClient.analyze_alert has ended with api, the outcome
\* of _call_api: retry, or return to AlertAnalyzer.analyze_alert (steps 4 and 5)
AttemptDone(w0, t, api) ==
    Let(w0, LAMBDA w :
      Let(DeepSeek_analyze_alert(api), LAMBDA body :
        IF ShouldRetry(body, w.task[t].attempt) THEN CallLLM(w, t, w.task[t].attempt + 1)
        ELSE IF body.exc # "" \/ Falsy(body.val) THEN AfterAnalyze(w, t, NoResult)
        ELSE AfterAnalyze(w, t, BuildAnalysisResult(w.task[t].alert, body.val))))

\* the summaries of the prompt for the names of the queries that gave data:
\* what the formatters return for an empty dict, and otherwise a text that
\* stands for the formatted data (FormatSpec has the formatting itself)
Summaries(metrics, logs) ==
    [metrics_summary |-> IF metrics = <<>> THEN _format_metrics_for_prompt(<<>>)
                         ELSE "(formatted metrics)",
     logs_summary |-> IF logs = <<>> THEN _format_logs_for_prompt(<<>>)
                      ELSE "(formatted logs)"]

\* an attempt that sends its request with no API key; C35 tells it from the
\* real one
CallLLMWithoutKeyCheck(w0, t, n) ==
    Let(w0, LAMBDA w :
      Let([w.task[t] EXCEPT !.pc = "llm", !.attempt = n, !.pending = <<>>,
                            !.prompt = IF n = 1 THEN Summaries(w.task[t].metrics,
                                                                 w.task[t].logs)
                                       ELSE @,
                            !.metrics = <<>>, !.logs = <<>>], LAMBDA run :
        Count(SetRun(w, t, run), run.alert.id, "llm")))

\* attempt number n of DeepSeekClient.analyze_alert up to its request: the
\* metrics and the logs go into the prompt and are not read again; without an
\* API key _call_api raises before any request
CallLLM(w0, t, n) ==
    Let(w0, LAMBDA w :
      Let([w.task[t] EXCEPT !.pc = "llm", !.attempt = n, !.pending = <<>>,
                            !.prompt = IF n = 1 THEN Summaries(w.task[t].metrics,
                                                                 w.task[t].logs)
                                       ELSE @,
                            !.metrics = <<>>, !.logs = <<>>], LAMBDA run :
        IF ~settings.api_key THEN AttemptDone(SetRun(w, t, run), t, Raised("ValueError"))
        ELSE Count(SetRun(w, t, run), run.alert.id, "llm")))

\* the alerts of a submitted list numbered in order, n the number of the first
Numbered(alerts, n) ==
    [i \in 1..Len(alerts) |-> [alerts[i] EXCEPT !.id = n + i - 1]]

\* a receive_alerts that puts every alert of the batch on the queue; C25
\* tells it from the real one
RECURSIVE PutEvery(_, _, _)
PutEvery(w0, alerts, i) ==
    Let(w0, LAMBDA w :
      IF i > Len(alerts) THEN w
      ELSE PutEvery([w EXCEPT !.hist = Append(@, NewHist("webhook", alerts[i])),
                              !.queue = Append(@, alerts[i]),
                              !.unfinished = @ + 1],
                    alerts, i + 1))

\* receive_alerts: the firing alerts of the batch are put on the queue in order
RECURSIVE PutFiring(_, _, _)
PutFiring(w0, alerts, i) ==
    Let(w0, LAMBDA w :
      IF i > Len(alerts) THEN w
      ELSE IF alerts[i].status = "firing"
      THEN PutFiring([w EXCEPT !.hist = Append(@, NewHist("webhook", alerts[i])),
                               !.queue = Append(@, alerts[i]),
                               !.unfinished = @ + 1],
                     alerts, i + 1)
      ELSE PutFiring([w EXCEPT !.hist = Append(@, NewHist("webhook", alerts[i]))],
                     alerts, i + 1))

\* a status that counts the alerts not yet acknowledged; C36 tells it from
\* the real one
queue_status_of_unfinished ==
    [queue_size |-> unfinished_tasks,
     status |-> IF unfinished_tasks # 0 THEN "processing" ELSE "idle"]

\* GET /queue/status: what it returns in the state the program is in; it
\* changes nothing
queue_status ==
    [queue_size |-> Len(alert_queue),
     status |-> IF ~(alert_queue = <<>>) THEN "processing" ELSE "idle"]

---------------------------------------------------------------------------
(* Actions *)

vars == <<settings, alert_queue, unfinished_tasks, task, hist, running, loop_failed,
          backend, streams, payload, message, response, parsed, metrics_data, logs_data, prompt>>

Init ==
    /\ settings \in Settings
    /\ alert_queue = <<>>
    /\ unfinished_tasks = 0
    /\ task = [t \in Tasks |-> IdleRun]
    /\ hist = <<>>
    /\ running = TRUE
    /\ loop_failed = <<>>
    /\ backend = <<>>
    /\ streams = <<>>
    /\ payload = NoPayload
    /\ message = NoMessage
    /\ response = ""
    /\ parsed = NotCalled
    /\ metrics_data = <<>>
    /\ logs_data = <<>>
    /\ prompt = NoPrompt

\* the step leaves the state w
Becomes(w0) ==
    \E w \in {w0} :
        /\ alert_queue' = w.queue
        /\ unfinished_tasks' = w.unfinished
        /\ task' = w.task
        /\ hist' = w.hist
        /\ UNCHANGED <<settings, loop_failed, backend, streams, payload, message, response, parsed,
                       metrics_data, logs_data, prompt>>

\* POST /webhook/alerts
receive_alerts ==
    \E alerts \in SeqsUpTo(AlertPool, MaxAlerts - Len(hist)) :
        /\ running
        /\ alerts # <<>>
        /\ Becomes(PutFiring(World, Numbered(alerts, Len(hist) + 1), 1))
        /\ UNCHANGED running

\* POST /analyze
analyze_single_alert ==
    \E a \in AlertPool :
        /\ running
        /\ Len(hist) < MaxAlerts
        /\ task["manual"].pc = "idle"
        /\ \E alert \in {[a EXCEPT !.id = Len(hist) + 1]} :
             Becomes(analyze_alert([World EXCEPT !.hist = Append(@, NewHist("manual", alert))],
                                   "manual", alert))
        /\ UNCHANGED running

\* a call of AlertAnalyzer.batch_analyze_alerts
BatchAnalyze ==
    \E alerts \in SeqsUpTo(AlertPool, MaxAlerts - Len(hist)) :
        /\ running
        /\ alerts # <<>>
        /\ task["batch"].pc = "idle"
        /\ \E numbered \in {Numbered(alerts, Len(hist) + 1)} :
             Becomes(batch_analyze_alerts(
               [World EXCEPT
                  !.hist = @ \o [i \in 1..Len(numbered) |-> NewHist("batch", numbered[i])],
                  !.task["batch"].rest = numbered]))
        /\ UNCHANGED running

\* the worker, suspended in alert_queue.get(), is handed the oldest alert
Dequeue ==
    /\ task["worker"].pc = "idle"
    /\ alert_queue # <<>>
    /\ Becomes(process_alert_queue(World))
    /\ UNCHANGED running

\* a loop that gives up its remaining queries when one fails; C5 tells it from
\* the real one
QueryDoneAbandoning(w0, t, field, result, failed) ==
    Let(w0, LAMBDA w :
      Let(w.task[t], LAMBDA run :
        SetRun(w, t, [run EXCEPT ![field] = IF result # <<>>
                                            THEN Append(@, Head(run.pending)[1]) ELSE @,
                                 !.qfail = @ \/ failed,
                                 !.pending = IF failed THEN <<>> ELSE Tail(@)])))

\* a loop that keeps every result that is not a failure, empty or not; C27
\* tells it from the real one
QueryDoneKeepingEmpty(w0, t, field, result, failed) ==
    Let(w0, LAMBDA w :
      Let(w.task[t], LAMBDA run :
        SetRun(w, t, [run EXCEPT ![field] = IF ~failed
                                            THEN Append(@, Head(run.pending)[1]) ELSE @,
                                 !.qfail = @ \/ failed,
                                 !.pending = Tail(@)])))

\* the state after query_range has returned result for the request of t: the
\* result is kept when it is not empty, and the next query is sent
QueryDone(w0, t, field, result, failed) ==
    Let(w0, LAMBDA w :
      Let(w.task[t], LAMBDA run :
        SetRun(w, t, [run EXCEPT ![field] = IF result # <<>>
                                            THEN Append(@, Head(run.pending)[1]) ELSE @,
                                 !.qfail = @ \/ failed,
                                 !.pending = Tail(@)])))

\* the metrics backend answers the request of coroutine t
PromReply(t, reply) ==
    /\ task[t].pc = "prom"
    /\ \E w \in {QueryDone(World, t, "metrics", Prometheus_query_range(reply),
                           QueryFailed(reply))} :
         Becomes(IF w.task[t].pending # <<>> THEN Count(w, w.task[t].alert.id, "prom")
                 ELSE get_logs_for_alert(w, t))
    /\ UNCHANGED running

PromResponse(t) == \E reply \in PromReplies : PromReply(t, reply)

\* the log backend answers the request of coroutine t
LokiReply(t, reply) ==
    /\ task[t].pc = "loki"
    /\ \E w \in {QueryDone(World, t, "logs", Loki_query_range(reply),
                           QueryFailed(reply))} :
         Becomes(IF w.task[t].pending # <<>> THEN Count(w, w.task[t].alert.id, "loki")
                 ELSE CallLLM(w, t, 1))
    /\ UNCHANGED running

LokiResponse(t) == \E reply \in LokiReplies : LokiReply(t, reply)

\* the LLM backend answers (or the request times out or fails)
LLMResponse(t) ==
    \E reply \in LLMReplies :
        /\ task[t].pc = "llm"
        /\ \E id \in {task[t].alert.id} :
             Becomes(AttemptDone(
               [World EXCEPT !.hist[id].llm_first = IF @ = "" THEN reply.kind ELSE @,
                             !.hist[id].llm_503 = IF reply.kind = "503" THEN @ + 1 ELSE @,
                             !.hist[id].got_text = @ \/ reply.kind = "200"],
               t, _call_api(reply)))
        /\ UNCHANGED running

\* a send_analysis that gives up on the generic webhook when the chat
\* channel has failed; C12 tells it from the real one
SlackResponseAborting(t) ==
    \E ok \in BOOLEAN :
        /\ task[t].pc = "slack"
        /\ \E w \in {Mark(World, task[t].alert.id, "slack", Delivery(ok))} :
             Becomes(IF settings.generic_webhook_url /\ ok
                     THEN Count(SetRun(w, t, [task[t] EXCEPT !.pc = "webhook", !.success = ok]),
                                task[t].alert.id, "posts")
                     ELSE AfterSend(w, t, ok))
        /\ UNCHANGED running

\* the chat webhook answers: _send_slack_notification returns ok
SlackResponse(t) ==
    \E ok \in BOOLEAN :
        /\ task[t].pc = "slack"
        /\ \E w \in {Mark(World, task[t].alert.id, "slack", Delivery(ok))} :
             Becomes(IF settings.generic_webhook_url
                     THEN Count(SetRun(w, t, [task[t] EXCEPT !.pc = "webhook", !.success = ok]),
                                task[t].alert.id, "posts")
                     ELSE AfterSend(w, t, ok))
        /\ UNCHANGED running

\* the generic webhook answers: _send_generic_webhook returns ok
WebhookResponse(t) ==
    \E ok \in BOOLEAN :
        /\ task[t].pc = "webhook"
        /\ Becomes(AfterSend(Mark(World, task[t].alert.id, "webhook", Delivery(ok)),
                              t, task[t].success \/ ok))
        /\ UNCHANGED running

\* a worker that takes the cancellation for a failure of the alert in hand
\* and goes on; C20 tells it from the real one
ShutdownSwallowed ==
    /\ running
    /\ running' = FALSE
    /\ Becomes(World)

\* lifespan shutdown: processor_task.cancel(); the CancelledError passes the
\* except Exception handlers, runs the finally of an alert in progress, and
\* ends the loop
Shutdown ==
    /\ running
    /\ running' = FALSE
    /\ Becomes(SetRun(IF task["worker"].pc \in {"idle", "pause"} THEN World
                      ELSE task_done(World, task["worker"].alert.id),
                      "worker", [IdleRun EXCEPT !.pc = "cancelled"]))

Next ==
    \/ receive_alerts
    \/ analyze_single_alert
    \/ BatchAnalyze
    \/ Dequeue
    \/ \E t \in Tasks : PromResponse(t)
    \/ \E t \in Tasks : LokiResponse(t)
    \/ \E t \in Tasks : LLMResponse(t)
    \/ \E t \in Tasks : SlackResponse(t)
    \/ \E t \in Tasks : WebhookResponse(t)
    \/ Shutdown

Spec == Init /\ [][Next]_vars

\* the next step of the worker: it is handed an alert, or the network call it
\* waits for returns
WorkerStep ==
    \/ Dequeue
    \/ PromResponse("worker")
    \/ LokiResponse("worker")
    \/ LLMResponse("worker")
    \/ SlackResponse("worker")
    \/ WebhookResponse("worker")

\* the queue and its worker on their own: the coroutines of POST /analyze and
\* of batch_analyze_alerts keep their data to themselves and touch neither
\* the queue nor the worker (WorkerUndisturbed)
WorkerNext ==
    \/ receive_alerts
    \/ WorkerStep
    \/ Shutdown

\* every network call of the worker returns or times out (each client sets a
\* timeout), and the event loop resumes the worker when the queue holds an
\* alert; the worker waits in one place at a time, so one condition covers
\* all its steps
Fairness == WF_vars(WorkerStep)

FairSpec == Init /\ [][WorkerNext]_vars /\ Fairness

\* the whole application under the same condition
FairAppSpec == Spec /\ Fairness

---------------------------------------------------------------------------
(* The worker when its loop fails outside the processing of an alert: an   *)
(* Exception raised where the loop waits for the next alert goes to the    *)
(* outer except Exception of process_alert_queue                           *)

\* alert_queue.get() raises: the outer handler logs and starts sleep(5)
LoopFailure ==
    /\ running
    /\ task["worker"].pc = "idle"
    /\ task' = [task EXCEPT !["worker"].pc = "pause"]
    /\ loop_failed' = <<Len(hist)>>
    /\ UNCHANGED <<settings, alert_queue, unfinished_tasks, hist, running, backend, streams, payload, message,
                   response, parsed, metrics_data, logs_data, prompt>>

\* a loop that ends after the pause; C26 tells it from the real one
PauseOverAndOut ==
    /\ task["worker"].pc = "pause"
    /\ Becomes(SetRun(World, "worker", [IdleRun EXCEPT !.pc = "cancelled"]))
    /\ UNCHANGED running

\* sleep(5) returns and the loop goes round to alert_queue.get()
PauseOver ==
    /\ task["worker"].pc = "pause"
    /\ Becomes(process_alert_queue(World))
    /\ UNCHANGED running

LoopFailNext ==
    \/ receive_alerts
    \/ WorkerStep
    \/ Shutdown
    \/ LoopFailure
    \/ PauseOver

\* as Fairness, and the sleep of the pause returns
LoopFailSpec == Init /\ [][LoopFailNext]_vars /\ WF_vars(WorkerStep \/ PauseOver)

\* a step of another coroutine leaves the queue and the worker as they are
WorkerUndisturbed ==
    [][(\E t \in Tasks \ {"worker"} :
           \/ PromResponse(t) \/ LokiResponse(t) \/ LLMResponse(t)
           \/ SlackResponse(t) \/ WebhookResponse(t))
         \/ analyze_single_alert \/ BatchAnalyze
       => UNCHANGED <<alert_queue, unfinished_tasks, running, settings>>
            /\ task'["worker"] = task["worker"]]_vars

---------------------------------------------------------------------------
(* _parse_analysis_response applied on its own to every response text *)

ParseInit ==
    /\ response \in ResponseTexts
    /\ parsed = NotCalled
    /\ settings = [api_key |-> TRUE, slack_webhook_url |-> FALSE, generic_webhook_url |-> FALSE]
    /\ alert_queue = <<>>
    /\ unfinished_tasks = 0
    /\ task = [t \in Tasks |-> IdleRun]
    /\ hist = <<>>
    /\ running = TRUE
    /\ loop_failed = <<>>
    /\ backend = <<>>
    /\ streams = <<>>
    /\ payload = NoPayload
    /\ message = NoMessage
    /\ metrics_data = <<>>
    /\ logs_data = <<>>
    /\ prompt = NoPrompt

ParseResponse ==
    /\ ~parsed.done
    /\ parsed' = _parse_analysis_response(response)
    /\ UNCHANGED <<response, settings, alert_queue, unfinished_tasks, task, hist, running,
                   loop_failed, backend, streams, payload, message, metrics_data, logs_data, prompt>>

ParseNext == ParseResponse

ParseSpec == ParseInit /\ [][ParseNext]_vars

---------------------------------------------------------------------------
(* _build_analysis_prompt applied on its own to metrics and to logs *)

FormatInit ==
    /\ \/ metrics_data \in MetricInputs /\ logs_data = <<>>
       \/ metrics_data = <<>> /\ logs_data \in LogInputs
    /\ prompt = NoPrompt
    /\ response = ""
    /\ parsed = NotCalled
    /\ settings = [api_key |-> TRUE, slack_webhook_url |-> FALSE, generic_webhook_url |-> FALSE]
    /\ alert_queue = <<>>
    /\ unfinished_tasks = 0
    /\ task = [t \in Tasks |-> IdleRun]
    /\ hist = <<>>
    /\ running = TRUE
    /\ loop_failed = <<>>
    /\ backend = <<>>
    /\ streams = <<>>
    /\ payload = NoPayload
    /\ message = NoMessage

\* metrics_summary and logs_summary of _build_analysis_prompt
_build_analysis_prompt ==
    /\ prompt = NoPrompt
    /\ prompt' = [metrics_summary |-> _format_metrics_for_prompt(metrics_data),
                  logs_summary |-> _format_logs_for_prompt(logs_data)]
    /\ UNCHANGED <<metrics_data, logs_data, response, parsed, settings, alert_queue,
                   unfinished_tasks, task, hist, running, loop_failed, backend, streams, payload, message>>

FormatNext == _build_analysis_prompt

FormatSpec == FormatInit /\ [][FormatNext]_vars

---------------------------------------------------------------------------
(* One firing alert about a host, posted to /webhook/alerts of a service   *)
(* without notification channels, and the worker's analysis of it          *)

HostInit ==
    /\ Init
    /\ ~settings.slack_webhook_url
    /\ ~settings.generic_webhook_url

\* POST /webhook/alerts with one firing alert
receive_host_alert ==
    \E labels \in HostLabelSets :
        /\ running
        /\ hist = <<>>
        /\ Becomes(PutFiring(World, Numbered(<<Alert("firing", labels)>>, 1), 1))
        /\ UNCHANGED running

HostNext ==
    \/ receive_host_alert
    \/ Dequeue
    \/ PromResponse("worker")
    \/ LokiResponse("worker")
    \/ LLMResponse("worker")

HostSpec == HostInit /\ [][HostNext]_vars

---------------------------------------------------------------------------
(* One firing alert with any of the labels the query builders look at, and *)
(* the worker's gathering for it from backends whose answers are laid down *)
(* in advance                                                              *)

\* the number of answers laid down; the queries get them in turn, round and
\* round
BackendPeriod == 2

\* what a backend does with a request: its kind, and whether it has data
Answers == { [kind |-> r.kind, data |-> r.result # <<>>] : r \in PromReplies }

PromAnswer(a) ==
    CHOOSE r \in PromReplies : r.kind = a.kind /\ (r.result # <<>>) = a.data

LokiAnswer(a) ==
    CHOOSE r \in LokiReplies : r.kind = a.kind /\ (r.result # <<>>) = a.data

\* the answer to the n-th query sent to a backend
AnswerTo(n) == backend[((n - 1) % Len(backend)) + 1]

\* a label that is left out when it has no value, or carried with the empty
\* value
GivenLabel(key, value, carried) ==
    IF carried THEN << <<key, value>> >> ELSE OptionalLabel(key, value)

LabelSets ==
    { OptionalLabel("alertname", alertname) \o GivenLabel("component", component, carried)
        \o GivenLabel("service", service, carried) \o GivenLabel("job", job, carried)
        \o GivenLabel("instance", instance, carried) :
        alertname \in {"HighCPU", "MemoryPressure", "DiskFull", "NodeDown"},
        component \in {"", "cpu", "memory", "disk"},
        service \in {"", "api"},
        job \in {"", "node"},
        instance \in {"", "host1:9100"},
        carried \in BOOLEAN }

GatherInit ==
    /\ settings = [api_key |-> TRUE, slack_webhook_url |-> FALSE, generic_webhook_url |-> FALSE]
    /\ backend \in [1..BackendPeriod -> Answers]
    /\ alert_queue = <<>>
    /\ unfinished_tasks = 0
    /\ task = [t \in Tasks |-> IdleRun]
    /\ hist = <<>>
    /\ running = TRUE
    /\ loop_failed = <<>>
    /\ streams = <<>>
    /\ payload = NoPayload
    /\ message = NoMessage
    /\ response = ""
    /\ parsed = NotCalled
    /\ metrics_data = <<>>
    /\ logs_data = <<>>
    /\ prompt = NoPrompt

\* POST /webhook/alerts with one firing alert
receive_labelled_alert ==
    \E labels \in LabelSets :
        /\ running
        /\ hist = <<>>
        /\ Becomes(PutFiring(World, Numbered(<<Alert("firing", labels)>>, 1), 1))
        /\ UNCHANGED running

\* the metrics backend gives the answer laid down for the request
PromAnswered ==
    /\ task["worker"].pc = "prom"
    /\ PromReply("worker", PromAnswer(AnswerTo(hist[task["worker"].alert.id].prom)))

\* the log backend gives the answer laid down for the request
LokiAnswered ==
    /\ task["worker"].pc = "loki"
    /\ LokiReply("worker", LokiAnswer(AnswerTo(hist[task["worker"].alert.id].loki)))

GatherNext ==
    \/ receive_labelled_alert
    \/ Dequeue
    \/ PromAnswered
    \/ LokiAnswered

GatherSpec == GatherInit /\ [][GatherNext]_vars

---------------------------------------------------------------------------
(* LokiClient._parse_loki_response applied to the streams of a response, *)
(* and the formatter applied to what it returns                           *)

DigitVal(c) == CHOOSE d \in 0..9 : SubSeq("0123456789", d + 1, d + 1) = c

\* int(s) for a string of digits
RECURSIVE IntOf(_)
IntOf(s) ==
    IF Len(s) = 0 THEN 0
    ELSE IntOf(SubSeq(s, 1, Len(s) - 1)) * 10 + DigitVal(SubSeq(s, Len(s), Len(s)))

\* n in decimal, filled with zeros to the width
Padded(n, width) == Rep("0", width - Len(IntStr(n))) \o IntStr(n)

\* the date of the day that many days after 1970-01-01, as YYYY-MM-DD
DateOf(days) ==
    LET z == days + 719468
        era == z \div 146097
        doe == z - era * 146097
        yoe == (doe - doe \div 1460 + doe \div 36524 - doe \div 146096) \div 365
        doy == doe - (365 * yoe + yoe \div 4 - yoe \div 100)
        mp == (5 * doy + 2) \div 153
        d == doy - (153 * mp + 2) \div 5 + 1
        m == IF mp < 10 THEN mp + 3 ELSE mp - 9
        y == yoe + era * 400 + (IF m <= 2 THEN 1 ELSE 0)
    IN  Padded(y, 4) \o "-" \o Padded(m, 2) \o "-" \o Padded(d, 2)

\* datetime.isoformat() of the instant so many seconds and microseconds after
\* the epoch, in a process whose local time is UTC
isoformat(seconds, microsecond) ==
    LET tod == seconds % 86400
    IN  DateOf(seconds \div 86400) \o "T" \o Padded(tod \div 3600, 2) \o ":"
          \o Padded((tod % 3600) \div 60, 2) \o ":" \o Padded(tod % 60, 2)
          \o (IF microsecond = 0 THEN "" ELSE "." \o Padded(microsecond, 6))

\* datetime.fromtimestamp(int(timestamp_ns) / 1e9).isoformat() for a
\* timestamp of ten digits or more: the last nine digits are the nanoseconds,
\* rounded to microseconds
TimestampIso(timestamp_ns) ==
    LET seconds == IntOf(SubSeq(timestamp_ns, 1, Len(timestamp_ns) - 9))
        nanos == IntOf(SubSeq(timestamp_ns, Len(timestamp_ns) - 8, Len(timestamp_ns)))
        micros == (nanos + 500) \div 1000
    IN  IF micros = 1000000 THEN isoformat(seconds + 1, 0) ELSE isoformat(seconds, micros)

\* for timestamp_ns, log_line in values: logs.append({...})
ParseStream(stream) ==
    [i \in 1..Len(stream.values) |->
        [timestamp |-> TimestampIso(stream.values[i][1]),
         line |-> stream.values[i][2],
         labels |-> stream.stream]]

\* for stream in result, from stream i on
RECURSIVE ParseStreamsFrom(_, _)
ParseStreamsFrom(result, i) ==
    IF i > Len(result) THEN <<>>
    ELSE ParseStream(result[i]) \o ParseStreamsFrom(result, i + 1)

_parse_loki_response(result) == ParseStreamsFrom(result, 1)

\* the streams of one response, and the values of one stream, at most
MaxStreams == 2

MaxValues == 2

\* timestamps in nanoseconds, oldest first
Instants ==
    <<"1700000011000000000", "1700000012000000000",
      "1700000012500000000", "1700000013000000000">>

\* the values of a stream as direction=backward returns them: newest first
StreamValues ==
    { [i \in 1..Len(q) |-> <<Instants[q[i]], "disk full">>] :
        q \in { r \in SeqsUpTo(1..Len(Instants), MaxValues) :
                  /\ r # <<>>
                  /\ \A i \in 1..(Len(r) - 1) : r[i] >= r[i + 1] } }

StreamFiles == <<"/var/log/syslog", "/var/log/auth.log", "/var/log/kern.log">>

\* data.result of a response: streams with different labels
StreamInputs ==
    UNION { { [i \in 1..n |->
                 [stream |-> << <<"filename", StreamFiles[i]>>, <<"job", "node">> >>,
                  values |-> v[i]]] :
              v \in [1..n -> StreamValues] } : n \in 0..MaxStreams }

StreamInit ==
    /\ streams \in StreamInputs
    /\ payload = NoPayload
    /\ message = NoMessage
    /\ logs_data = <<>>
    /\ metrics_data = <<>>
    /\ prompt = NoPrompt
    /\ response = ""
    /\ parsed = NotCalled
    /\ settings = [api_key |-> TRUE, slack_webhook_url |-> FALSE, generic_webhook_url |-> FALSE]
    /\ alert_queue = <<>>
    /\ unfinished_tasks = 0
    /\ task = [t \in Tasks |-> IdleRun]
    /\ hist = <<>>
    /\ running = TRUE
    /\ loop_failed = <<>>
    /\ backend = <<>>

\* get_logs_for_alert with the one query job_logs, answered with a success
\* whose data.result is streams: the parsed result is kept if it is not empty
LogsGathered ==
    /\ logs_data = <<>>
    /\ prompt = NoPrompt
    /\ logs_data' = Let(_parse_loki_response(streams), LAMBDA result :
                      IF result # <<>> THEN << <<"job_logs", result>> >> ELSE <<>>)
    /\ UNCHANGED <<metrics_data, prompt, response, parsed, settings, alert_queue,
                   unfinished_tasks, task, hist, running, loop_failed, backend, streams, payload, message>>

StreamNext ==
    \/ LogsGathered
    \/ logs_data # <<>> /\ _build_analysis_prompt

StreamSpec == StreamInit /\ [][StreamNext]_vars

---------------------------------------------------------------------------
(* _build_slack_message applied to a payload *)

\* how many remediation steps an analysis has, at most
MaxSteps == 3

SlackSeverities == {"critical", "CRITICAL", "Warning", "info", "Info", "error", "unknown", ""}

Numbered_items(word, n) == [i \in 1..n |-> word \o " " \o IntStr(i)]

\* payloads with up to MaxMore evidence items beyond those rendered
PayloadInputs ==
    { [alert_name |-> "HighCPU",
       severity |-> severity,
       analysis |-> [summary |-> "CPU saturated",
                     root_cause |-> "runaway process",
                     evidence |-> Numbered_items("evidence", e),
                     remediation_steps |-> Numbered_items("step", r),
                     severity_assessment |-> "High - user facing"]] :
        severity \in SlackSeverities,
        e \in 0..(MaxEvidenceBullets + MaxMore),
        r \in 0..MaxSteps }

SlackInit ==
    /\ payload \in PayloadInputs
    /\ message = NoMessage
    /\ streams = <<>>
    /\ logs_data = <<>>
    /\ metrics_data = <<>>
    /\ prompt = NoPrompt
    /\ response = ""
    /\ parsed = NotCalled
    /\ settings = [api_key |-> TRUE, slack_webhook_url |-> TRUE, generic_webhook_url |-> FALSE]
    /\ alert_queue = <<>>
    /\ unfinished_tasks = 0
    /\ task = [t \in Tasks |-> IdleRun]
    /\ hist = <<>>
    /\ running = TRUE
    /\ loop_failed = <<>>
    /\ backend = <<>>

\* message = self._build_slack_message(payload)
BuildSlackMessage ==
    /\ message = NoMessage
    /\ message' = _build_slack_message(payload)
    /\ UNCHANGED <<payload, streams, logs_data, metrics_data, prompt, response, parsed,
                   settings, alert_queue, unfinished_tasks, task, hist, running,
                   loop_failed, backend>>

SlackNext == BuildSlackMessage

SlackSpec == SlackInit /\ [][SlackNext]_vars

---------------------------------------------------------------------------
(* Claims about _parse_analysis_response, checked under ParseSpec *)

Decodes == json_loads(response).ok

DecodesToObject == Decodes /\ json_loads(response).val.t = "obj"

ListFields == {"evidence", "remediation_steps"}

\* C6: _parse_analysis_response returns a result and never raises, whatever
\* the response text: non-JSON text, a JSON object, or JSON that is no object.
C6_NeverRaises == parsed.done => parsed.exc = ""

\* C8: a response text that does not decode as JSON yields exactly the fixed
\* fallback: the two fixed texts, one evidence item holding the first 500
\* characters of the raw text, the three manual-review steps in order, the
\* fixed severity assessment and confidence 0.0.
C8_FallbackExact ==
    (parsed.done /\ ~Decodes) =>
        /\ parsed.exc = ""
        /\ parsed.val.t = "obj"
        /\ Len(parsed.val.items) = 6
        /\ Keys(parsed.val) = {"summary", "root_cause", "evidence", "remediation_steps",
                               "severity_assessment", "confidence"}
        /\ DictGet(parsed.val, "summary", JNull) = JStr("Analysis parsing failed")
        /\ DictGet(parsed.val, "root_cause", JNull)
             = JStr("Unable to determine - LLM response format error")
        /\ LET ev == DictGet(parsed.val, "evidence", JNull)
           IN  /\ ev.t = "list"
               /\ Len(ev.items) = 1
               /\ ev.items[1].t = "str"
               /\ Len(ev.items[1].s) = (IF Len(response) < 500 THEN Len(response) ELSE 500)
               /\ ev.items[1].s = SubSeq(response, 1, Len(ev.items[1].s))
        /\ DictGet(parsed.val, "remediation_steps", JNull)
             = JList(<<JStr("Review the alert manually"),
                       JStr("Check system logs and metrics"),
                       JStr("Contact the on-call engineer")>>)
        /\ DictGet(parsed.val, "severity_assessment", JNull)
             = JStr("Unknown - Manual review required")
        /\ DictGet(parsed.val, "confidence", JNull) = JNum("0.0")

\* a text longer than 500 characters that does not decode has been parsed
C8_Witness == parsed.done /\ ~Decodes /\ Len(response) > 500

\* C9 as stated: for a decoded JSON object every present field is returned
\* unchanged, an absent summary, root_cause or severity_assessment becomes
\* "Not provided", and confidence is 0.75 exactly when the key is absent.
C9_PresentFieldsUnchanged ==
    (parsed.done /\ DecodesToObject) =>
        LET given == json_loads(response).val
        IN  /\ parsed.exc = ""
            /\ \A k \in Keys(given) :
                 DictGet(parsed.val, k, JNull) = DictGet(given, k, JStr("absent"))
            /\ \A k \in {"summary", "root_cause", "severity_assessment"} \ Keys(given) :
                 DictGet(parsed.val, k, JNull) = JStr("Not provided")
            /\ ("confidence" \notin Keys(given))
                 => DictGet(parsed.val, "confidence", JNull) = JNum("0.75")

\* C9 amended: for a decoded JSON object every present field is returned
\* unchanged, except an evidence or remediation_steps that is not a list,
\* which is replaced by the one-element list [str(value)]; an absent summary, root_cause or
\* severity_assessment becomes "Not provided"; confidence is 0.75 when the key
\* is absent and the given value when it is present.
C9_ObjectFields ==
    (parsed.done /\ DecodesToObject) =>
        LET given == json_loads(response).val
        IN  /\ parsed.exc = ""
            /\ parsed.val.t = "obj"
            /\ Keys(parsed.val) = Keys(given) \cup ListFields
                 \cup {"summary", "root_cause", "severity_assessment", "confidence"}
            /\ \A k \in Keys(given) :
                 (k \notin ListFields \/ DictGet(given, k, JNull).t = "list") =>
                     DictGet(parsed.val, k, JNull) = DictGet(given, k, JStr("absent"))
            /\ \A k \in Keys(given) \cap ListFields :
                 DictGet(given, k, JNull).t # "list" =>
                     DictGet(parsed.val, k, JNull)
                       = JList(<<JStr(str(DictGet(given, k, JNull)))>>)
            /\ \A k \in {"summary", "root_cause", "severity_assessment"} \ Keys(given) :
                 DictGet(parsed.val, k, JNull) = JStr("Not provided")
            /\ ("confidence" \notin Keys(given))
                 => DictGet(parsed.val, "confidence", JNull) = JNum("0.75")

\* an object with a summary and a confidence of its own and no root_cause
C9_Witness ==
    /\ parsed.done /\ DecodesToObject
    /\ {"summary", "confidence"} \subseteq Keys(json_loads(response).val)
    /\ "root_cause" \notin Keys(json_loads(response).val)
    /\ DictGet(parsed.val, "confidence", JNull) = JNum("1.5")

\* C10: in every returned result evidence and remediation_steps are lists: a
\* list is kept as it is, a scalar v becomes the one-element list [str(v)],
\* an absent field becomes ["Not provided"].
C10_ListsCoerced ==
    (parsed.done /\ parsed.exc = "") =>
        \A f \in ListFields :
            LET got == DictGet(parsed.val, f, JNull)
                given == json_loads(response).val
                v == DictGet(given, f, JNull)
            IN  /\ got.t = "list"
                /\ DecodesToObject =>
                     /\ (f \notin Keys(given)) => got = JList(<<JStr("Not provided")>>)
                     /\ (f \in Keys(given) /\ v.t = "list") => got = v
                     /\ (f \in Keys(given) /\ v.t # "list") =>
                          /\ got = JList(<<JStr(str(v))>>)
                          /\ v.t \in {"str", "num"} => got.items[1].s = v.s
                          /\ v.t = "null" => got.items[1].s = "None"

\* evidence given as a bare string and remediation_steps left out
C10_Witness ==
    /\ parsed.done /\ parsed.exc = "" /\ DecodesToObject
    /\ DictGet(json_loads(response).val, "evidence", JNull).t = "str"
    /\ "remediation_steps" \notin Keys(json_loads(response).val)

---------------------------------------------------------------------------
(* Claims about the pipeline, checked under Spec and FairSpec *)

Ids == 1..Len(hist)

\* the alert went through the webhook onto the queue
Enqueued(id) ==
    id <= Len(hist) /\ hist[id].entry = "webhook" /\ hist[id].status = "firing"

\* analysis and notification of the alert have completed or failed
Completed(id) == hist[id].outcome = "none" \/ hist[id].sent # ""

\* the worker has taken the alert from the queue and has not finished with it
InFlight(id) == Enqueued(id) /\ hist[id].dequeued > 0 /\ ~Completed(id)

\* some coroutine is waiting for the LLM backend's answer about the alert
AtLLM(id) == \E t \in Tasks : task[t].pc = "llm" /\ task[t].alert.id = id

\* AlertAnalyzer.analyze_alert has returned for the alert
Ended(id) == hist[id].outcome \in {"none", "result"}

NProm(id) == Len(Prometheus_build_queries_from_labels(hist[id].labels))

NLoki(id) == Len(Loki_build_queries_from_labels(hist[id].labels))

\* C1: the queue worker has at most one alert in flight: an alert is taken
\* from the queue once, and no alert is taken while analysis and notification
\* of an earlier one have neither completed nor failed.
C1_OneInFlight ==
    /\ Cardinality({id \in Ids : InFlight(id)}) <= 1
    /\ \A id \in Ids : hist[id].dequeued <= 1
    /\ \A id \in Ids : (InFlight(id) /\ running) =>
          task["worker"].pc # "idle" /\ task["worker"].alert.id = id

\* the first alert is done with and the second is in flight
C1_Witness ==
    /\ Len(hist) >= 2
    /\ Enqueued(1) /\ Completed(1) /\ hist[1].acks = 1
    /\ InFlight(2) /\ task["worker"].pc = "llm"

\* C2: a failure at any step of one alert's processing never halts the
\* worker: every alert put on the queue is eventually taken and processed to
\* its end, provided every network call returns or times out (FairSpec) and
\* the worker is not cancelled.
C2_EventuallyProcessed ==
    \A id \in 1..MaxAlerts :
        Enqueued(id) ~> ((id <= Len(hist) /\ hist[id].dequeued = 1 /\ hist[id].acks = 1)
                           \/ ~running)

\* the analysis of the first alert failed, and the second, queued behind it,
\* was processed to its end all the same
C2_Witness ==
    /\ running
    /\ Len(hist) >= 2
    /\ Enqueued(1) /\ hist[1].outcome = "none" /\ hist[1].acks = 1
    /\ Enqueued(2) /\ hist[2].dequeued = 1 /\ hist[2].acks = 1

\* C3: for an alert whose status is not "firing", whichever entry point it
\* came through, no metrics, log or LLM request is issued and no notification
\* is sent.
C3_NonFiringUntouched ==
    \A id \in Ids :
        hist[id].status # "firing" =>
            /\ hist[id].prom = 0 /\ hist[id].loki = 0 /\ hist[id].llm = 0
            /\ hist[id].posts = 0

\* C4: when the LLM backend answers every request with 503, exactly three
\* requests are made for the alert and its analysis then fails.
C4_ThreeAttempts ==
    \A id \in Ids :
        (Ended(id) /\ hist[id].llm > 0 /\ hist[id].llm_503 = hist[id].llm) =>
            hist[id].llm = 3 /\ hist[id].outcome = "none"

\* C5: a failed metrics or log query counts as an empty result for that query
\* only: the loop goes on to its remaining queries, so every query built from
\* the labels is sent, and the analysis does not end before the LLM call.
C5_QueryFailureAbsorbed ==
    /\ \A reply \in PromReplies :
          QueryFailed(reply) => Prometheus_query_range(reply) = <<>>
    /\ \A reply \in LokiReplies :
          QueryFailed(reply) => Loki_query_range(reply) = <<>>
    /\ \A t \in Tasks :
          /\ task[t].pc = "prom" =>
                /\ task[t].pending # <<>>
                /\ hist[task[t].alert.id].prom + Len(task[t].pending) - 1
                     = NProm(task[t].alert.id)
          /\ task[t].pc = "loki" =>
                /\ task[t].pending # <<>>
                /\ hist[task[t].alert.id].prom = NProm(task[t].alert.id)
                /\ hist[task[t].alert.id].loki + Len(task[t].pending) - 1
                     = NLoki(task[t].alert.id)
    /\ \A id \in Ids :
          (AtLLM(id) \/ Ended(id)) =>
              /\ hist[id].prom = NProm(id)
              /\ hist[id].loki = NLoki(id)
              /\ settings.api_key => hist[id].llm >= 1

\* a query of the alert has failed and the request to the LLM backend is out
C5_Witness ==
    \E t \in Tasks :
        /\ task[t].pc = "llm"
        /\ task[t].qfail
        /\ NProm(task[t].alert.id) >= 2
        /\ hist[task[t].alert.id].llm = 1

\* C7: once the LLM backend has returned a response text for an alert,
\* AlertAnalyzer.analyze_alert yields an AnalysisResult, never a failure.
C7_TextYieldsResult ==
    \A id \in Ids :
        (hist[id].got_text /\ Ended(id)) => hist[id].outcome = "result"

---------------------------------------------------------------------------
(* Claims about NotificationService.send_analysis, checked under Spec *)

\* the number of notification channels that are configured
Configured ==
    (IF settings.slack_webhook_url THEN 1 ELSE 0)
      + (IF settings.generic_webhook_url THEN 1 ELSE 0)

\* C11: send_analysis returns true exactly when no channel is configured or
\* the delivery through at least one configured channel succeeded: true with
\* no channel, true with one channel failing and one succeeding, false when
\* every configured channel fails.
C11_SuccessIffAnyDelivered ==
    \A id \in Ids :
        hist[id].sent # "" =>
            /\ hist[id].sent = "ok" <=>
                  \/ Configured = 0
                  \/ hist[id].slack = "ok"
                  \/ hist[id].webhook = "ok"
            /\ Configured = 0 => hist[id].sent = "ok"
            /\ (hist[id].slack = "failed" /\ hist[id].webhook = "ok") => hist[id].sent = "ok"
            /\ (hist[id].slack = "ok" /\ hist[id].webhook = "failed") => hist[id].sent = "ok"
            /\ (Configured > 0 /\ hist[id].slack # "ok" /\ hist[id].webhook # "ok")
                  => hist[id].sent = "failed"

\* send_analysis has returned true after the chat channel failed and the
\* generic webhook delivered
C11_Witness ==
    \E id \in Ids :
        /\ hist[id].slack = "failed" /\ hist[id].webhook = "ok"
        /\ hist[id].sent = "ok"

\* C12: in one call of send_analysis every configured channel is attempted
\* exactly once whatever the other channel did: a failure of the chat channel
\* does not keep the generic webhook from being attempted, and the call
\* returns its boolean instead of raising.
C12_EveryChannelAttempted ==
    /\ \A id \in Ids :
          /\ hist[id].slack # "" => settings.slack_webhook_url
          /\ hist[id].webhook # "" => settings.generic_webhook_url
          /\ hist[id].posts <= Configured
          /\ hist[id].sent # "" =>
                /\ hist[id].slack # "" <=> settings.slack_webhook_url
                /\ hist[id].webhook # "" <=> settings.generic_webhook_url
                /\ hist[id].posts = Configured
                /\ hist[id].entry = "manual" => hist[id].reply = "200"
    /\ \A t \in Tasks :
          /\ task[t].pc = "slack" =>
                /\ hist[task[t].alert.id].posts = 1
                /\ hist[task[t].alert.id].sent = ""
          /\ task[t].pc = "webhook" =>
                /\ hist[task[t].alert.id].posts = Configured
                /\ hist[task[t].alert.id].slack # "" <=> settings.slack_webhook_url
                /\ hist[task[t].alert.id].sent = ""

\* the chat channel has failed and the generic webhook has been attempted
\* all the same, and send_analysis has returned false
C12_Witness ==
    \E id \in Ids :
        /\ hist[id].slack = "failed" /\ hist[id].webhook = "failed"
        /\ hist[id].posts = 2
        /\ hist[id].sent = "failed"

---------------------------------------------------------------------------
(* Claims about the order of an alert's steps, checked under Spec *)

\* a coroutine is gathering the metrics or the logs of the alert
Gathering(id) == \E t \in Tasks : task[t].pc \in {"prom", "loki"} /\ task[t].alert.id = id

\* a coroutine is sending the notifications of the alert
Notifying(id) == \E t \in Tasks : task[t].pc \in {"slack", "webhook"} /\ task[t].alert.id = id

\* C13: the steps of an alert occur in the order received, context gathered,
\* analyzed, notified, done: the LLM is called only when every metric and log
\* query has been answered, a notification is sent only after the analysis
\* gave a result, and an alert whose analysis failed is never notified.
C13_StepsInOrder ==
    \A id \in Ids :
        /\ (hist[id].entry = "webhook" /\ (hist[id].prom > 0 \/ hist[id].loki > 0)) =>
              hist[id].dequeued = 1
        /\ hist[id].loki > 0 => hist[id].prom = NProm(id)
        /\ (hist[id].llm > 0 \/ AtLLM(id) \/ Ended(id)) =>
              /\ hist[id].prom = NProm(id)
              /\ hist[id].loki = NLoki(id)
              /\ ~Gathering(id)
        /\ (hist[id].posts > 0 \/ hist[id].sent # "" \/ Notifying(id)) =>
              /\ hist[id].outcome = "result"
              /\ ~AtLLM(id)
        /\ hist[id].outcome = "none" =>
              hist[id].posts = 0 /\ hist[id].sent = "" /\ ~Notifying(id)
        /\ (hist[id].acks = 1 /\ running) =>
              /\ Completed(id)
              /\ ~Notifying(id) /\ ~AtLLM(id) /\ ~Gathering(id)

\* an alert from the webhook has gone through every step: dequeued, metrics
\* and logs gathered, analyzed with a result, notified and acknowledged
C13_Witness ==
    \E id \in Ids :
        /\ hist[id].entry = "webhook" /\ hist[id].dequeued = 1
        /\ hist[id].prom = NProm(id) /\ hist[id].prom > 0
        /\ hist[id].loki = NLoki(id) /\ hist[id].loki > 0
        /\ hist[id].llm = 1 /\ hist[id].outcome = "result"
        /\ hist[id].posts > 0 /\ hist[id].sent = "ok"
        /\ hist[id].acks = 1

\* C14: at most one LLM request is in flight at any moment: a manual
\* submission is never analyzed while the worker is analyzing an alert of its
\* own.
C14_OneLLMRequest ==
    ~(task["worker"].pc = "llm" /\ task["manual"].pc = "llm")

---------------------------------------------------------------------------
(* Claims about the formatters, checked under FormatSpec *)

\* the lines of a list of sequences of lines, one after the other, from i on
RECURSIVE Flatten(_, _)
Flatten(parts, i) ==
    IF i > Len(parts) THEN <<>> ELSE parts[i] \o Flatten(parts, i + 1)

\* the sum of the numbers of a sequence, from i on
RECURSIVE SumFrom(_, _)
SumFrom(ns, i) ==
    IF i > Len(ns) THEN 0 ELSE ns[i] + SumFrom(ns, i + 1)

\* the batches of logs_data that hold an entry
NonEmptyBatches == SelectSeq(logs_data, LAMBDA item : item[2] # <<>>)

\* a batch as the claim has it rendered: its heading, its first 10 entries,
\* each line cut to 200 characters and an ellipsis, and the marker of the
\* n - 10 entries left out
RenderedBatch(item) ==
    LET n == Len(item[2])
        shown == IF n > 10 THEN 10 ELSE n
    IN  <<"\n**" \o item[1] \o "** (" \o IntStr(n) \o " entries):">>
          \o [i \in 1..shown |->
                "  [" \o item[2][i].timestamp \o "] "
                  \o (IF Len(item[2][i].line) > 200
                      THEN SubSeq(item[2][i].line, 1, 200) \o "..."
                      ELSE item[2][i].line)]
          \o (IF n > 10 THEN <<"  ... and " \o IntStr(n - 10) \o " more entries">>
              ELSE <<>>)

\* C15: of each log batch at most the first 10 entries are rendered, a line
\* of more than 200 characters is cut to its first 200 and an ellipsis, a
\* batch of n > 10 entries is followed by one marker of n - 10 more (none
\* when n <= 10), and the total in front is the sum of the sizes of the
\* batches that are not empty.
C15_LogsBounded ==
    (prompt # NoPrompt /\ NonEmptyBatches # <<>>) =>
        prompt.logs_summary
          = Join("\n",
                 <<"Total log entries: "
                     \o IntStr(SumFrom([i \in 1..Len(NonEmptyBatches) |->
                                          Len(NonEmptyBatches[i][2])], 1))>>
                   \o Flatten([i \in 1..Len(NonEmptyBatches) |->
                                 RenderedBatch(NonEmptyBatches[i])], 1))

\* logs with a batch of 25 lines of 300 characters and a second batch, formatted
C15_Witness ==
    /\ prompt # NoPrompt
    /\ Len(NonEmptyBatches) = 2
    /\ \E i \in 1..2 :
          /\ Len(NonEmptyBatches[i][2]) = 25
          /\ Len(NonEmptyBatches[i][2][1].line) = 300

\* a series as the claim has it rendered: its labels, then sample 0, sample
\* floor(n / 2) and sample n - 1 (samples 1, floor(n / 2) + 1 and n of the
\* sequence) with the count n; nothing for a series without samples
RenderedSeries(result) ==
    LET n == Len(result.values)
    IN  IF n = 0 THEN <<>>
        ELSE << "  - " \o Join(", ", LabelPairs(result.metric, 1)),
                "    Start: " \o result.values[1][2]
                  \o ", Mid: " \o result.values[(n \div 2) + 1][2]
                  \o ", End: " \o result.values[n][2]
                  \o " (" \o IntStr(n) \o " data points)" >>

\* a metric query as the claim has it rendered: its heading and its first 3 series
RenderedQuery(item) ==
    <<"\n**" \o item[1] \o ":**">>
      \o Flatten([j \in 1..(IF Len(item[2]) > 3 THEN 3 ELSE Len(item[2])) |->
                    RenderedSeries(item[2][j])], 1)

\* C16: of each metric query at most 3 series are rendered, and a rendered
\* series of n >= 1 samples shows the values of sample 0, of sample
\* floor(n / 2) and of sample n - 1 and the count n, however many samples
\* there are.
C16_MetricsBounded ==
    (prompt # NoPrompt /\ metrics_data # <<>>) =>
        prompt.metrics_summary
          = Join("\n", Flatten([i \in 1..Len(metrics_data) |->
                                  RenderedQuery(metrics_data[i])], 1))

\* metrics with a query of more than 3 series, the first of them with 4
\* samples or more, formatted
C16_Witness ==
    /\ prompt # NoPrompt
    /\ \E i \in 1..Len(metrics_data) :
          /\ Len(metrics_data[i][2]) > 3
          /\ Len(metrics_data[i][2][1].values) >= 4
          /\ Len(metrics_data[i][2][2].values) = 0

---------------------------------------------------------------------------
(* Claims about the queries built from an alert's labels and about the     *)
(* analysis of an alert without data, checked under HostSpec               *)

QueryNamesOf(queries) == { queries[i][1] : i \in 1..Len(queries) }

\* the component is cpu, or the alert name has cpu in it in any letter case,
\* and there is an instance
CpuOnInstance(labels) ==
    /\ \/ \E i \in 1..Len(labels) : labels[i] = <<"component", "cpu">>
       \/ \E i \in 1..Len(labels) :
            /\ labels[i][1] = "alertname"
            /\ \E j \in 1..(Len(labels[i][2]) - 2) :
                 /\ Ch(labels[i][2], j) \in {"c", "C"}
                 /\ Ch(labels[i][2], j + 1) \in {"p", "P"}
                 /\ Ch(labels[i][2], j + 2) \in {"u", "U"}
    /\ \E i \in 1..Len(labels) : labels[i][1] = "instance" /\ labels[i][2] # ""

\* the metric queries of such an alert include cpu_usage and instance_up,
\* and they are the queries the worker sends
CpuQueriesBuilt ==
    \A id \in DOMAIN hist :
        CpuOnInstance(hist[id].labels) =>
            /\ {"cpu_usage", "instance_up"}
                 \subseteq QueryNamesOf(Prometheus_build_queries_from_labels(hist[id].labels))
            /\ (task["worker"].pc = "prom" /\ task["worker"].alert.id = id
                  /\ hist[id].prom = 1) =>
                   {"cpu_usage", "instance_up"} \subseteq QueryNamesOf(task["worker"].pending)

\* the step that ends the gathering sends the request to the LLM, with the
\* summaries of what was gathered, and ends no analysis, whatever came back
GatheringEndsInRequest ==
    \A id \in DOMAIN hist :
        (/\ settings.api_key
         /\ task["worker"].alert.id = id
         /\ task["worker"].pc = "loki"
         /\ task["worker"]'.pc # "loki") =>
            /\ task["worker"]'.pc = "llm"
            /\ task["worker"]'.alert.id = id
            /\ hist'[id].llm = 1
            /\ hist'[id].outcome = ""
            /\ (task["worker"].metrics = <<>>) =
                 (task["worker"]'.prompt.metrics_summary = "No metrics data available.")
            /\ task["worker"]'.prompt.logs_summary
                 \in {"No log data available.", "(formatted logs)"}

\* C17: labels with the component cpu, or with cpu in the alert name in any
\* letter case, and with an instance give metric queries that include
\* cpu_usage and instance_up; and when every query of both backends comes
\* back empty the analysis goes on: the LLM is called, with empty metrics
\* and empty logs
C17_CpuQueriesAndEmptyData == []CpuQueriesBuilt /\ [][GatheringEndsInRequest]_vars

\* the worker waits for the LLM on an alert with the component cpu and an
\* instance, every one of whose queries came back empty without failing
C17_Witness ==
    /\ task["worker"].pc = "llm"
    /\ ~task["worker"].qfail
    /\ task["worker"].prompt = [metrics_summary |-> "No metrics data available.",
                                 logs_summary |-> "No log data available."]
    /\ \E id \in DOMAIN hist :
         /\ task["worker"].alert.id = id
         /\ CpuOnInstance(hist[id].labels)
         /\ \E i \in 1..Len(hist[id].labels) : hist[id].labels[i] = <<"alertname", "HighCPU">>
         /\ hist[id].prom >= 3
         /\ hist[id].loki >= 1
         /\ hist[id].llm = 1

---------------------------------------------------------------------------
(* Claim about the confidence of an AnalysisResult                         *)

\* a decimal literal without sign or exponent that denotes a number from 0.0
\* to 1.0: the whole part is zero, or it is one and the fraction is zero
InUnitRange(lit) ==
    LET whole == SplitFirst(lit, ".", 1)
        frac == Slice(lit, Len(whole) + 2, Len(lit))
        Zeros(s) == \A i \in 1..Len(s) : Ch(s, i) = "0"
    IN  /\ Len(whole) > 0
        /\ \A i \in 1..Len(whole) : Ch(whole, i) \in Digits
        /\ \A i \in 1..Len(frac) : Ch(frac, i) \in Digits
        /\ \/ Zeros(whole)
           \/ /\ Ch(whole, Len(whole)) = "1"
              /\ Zeros(Slice(whole, 1, Len(whole) - 1))
              /\ Zeros(frac)

\* C18: every AnalysisResult of the pipeline has a confidence from 0.0 to
\* 1.0, whatever confidence the LLM returned
C18_ConfidenceInUnitRange ==
    \A t \in Tasks :
        task[t].result # NoResult => InUnitRange(task[t].result[1].confidence)

---------------------------------------------------------------------------
(* Claim about the response of POST /analyze                               *)

\* C19: POST /analyze answers with an error when the analysis gives no
\* result, and with the AnalysisResult when it gives one, also when every
\* configured channel has failed; it answers once the notification is over
C19_ManualResponse ==
    \A id \in DOMAIN hist :
        hist[id].entry = "manual" =>
            /\ hist[id].reply \in {"", "200", "500"}
            /\ (hist[id].outcome = "none") = (hist[id].reply = "500")
            /\ (hist[id].outcome = "result" /\ hist[id].sent # "") = (hist[id].reply = "200")
            /\ hist[id].dequeued = 0

\* POST /analyze has answered with the result of an alert that both
\* configured channels failed to take
C19_Witness ==
    \E id \in DOMAIN hist :
        /\ hist[id].entry = "manual"
        /\ settings.slack_webhook_url
        /\ settings.generic_webhook_url
        /\ hist[id].outcome = "result"
        /\ hist[id].slack = "failed"
        /\ hist[id].webhook = "failed"
        /\ hist[id].sent = "failed"
        /\ hist[id].reply = "200"

---------------------------------------------------------------------------
(* Claim about the cancellation of the worker                              *)

\* the worker has ended, and the queue counts as unfinished the alerts it
\* holds and no other
WorkerEnded ==
    /\ task["worker"].pc = "cancelled"
    /\ unfinished_tasks = Len(alert_queue)
    /\ \A id \in DOMAIN hist :
         hist[id].entry = "webhook" => hist[id].acks = hist[id].dequeued

\* the cancellation itself: nothing is taken from the queue, no request and
\* no notification is sent, the alert in hand is given back with task_done
CancelAbandons ==
    (running /\ ~running') =>
        /\ alert_queue' = alert_queue
        /\ unfinished_tasks' = Len(alert_queue)
        /\ DOMAIN hist' = DOMAIN hist
        /\ \A id \in DOMAIN hist :
             hist'[id] = [hist[id] EXCEPT !.acks = hist'[id].acks]

\* after the cancellation the queue and every alert that came through it
\* stay as they are
NothingAfterCancel ==
    ~running =>
        /\ alert_queue' = alert_queue
        /\ unfinished_tasks' = unfinished_tasks
        /\ task["worker"]' = task["worker"]
        /\ DOMAIN hist' = DOMAIN hist
        /\ \A id \in DOMAIN hist :
             hist[id].entry = "webhook" => hist'[id] = hist[id]

---------------------------------------------------------------------------
(* Claims about the attempts of the LLM request                            *)

\* C21: after a 401 from the LLM backend no further request is made for the
\* alert: it had exactly one, and its analysis has failed
C21_NoRetryAfter401 ==
    \A id \in DOMAIN hist :
        hist[id].llm_first = "401" =>
            /\ hist[id].llm = 1
            /\ hist[id].outcome = "none"
            /\ hist[id].posts = 0

\* the worker is through with an alert whose LLM request got a 401
C21_Witness ==
    \E id \in DOMAIN hist :
        /\ hist[id].entry = "webhook"
        /\ hist[id].llm_first = "401"
        /\ hist[id].llm = 1
        /\ hist[id].outcome = "none"
        /\ hist[id].acks = 1

\* the failures of a request that the claim calls retriable
RetriableKinds == {"429", "503", "timeout", "transport"}

\* C22: an analysis whose first LLM request failed with a 429, a 503, a
\* timeout or a transport error goes on to a later attempt: it ends without
\* a result only when all three attempts are used up, and with the result
\* of the attempt that succeeded when one did
C22_RetryThenSuccess ==
    \A id \in DOMAIN hist :
        (hist[id].llm_first \in RetriableKinds /\ Ended(id)) =>
            /\ hist[id].outcome = "none" => hist[id].llm = stop_after_attempt
            /\ hist[id].got_text => hist[id].outcome = "result"

---------------------------------------------------------------------------
(* Claims about the worker and its queue                                   *)

\* an alert of the queue is taken once and analyzed once (each of its
\* queries is sent once), its result is sent once (one post for each
\* configured channel), and it does not return to the queue
HandledOnce ==
    \A id \in Ids :
        hist[id].entry = "webhook" =>
            /\ hist[id].dequeued <= 1
            /\ hist[id].acks <= hist[id].dequeued
            /\ hist[id].prom <= NProm(id)
            /\ hist[id].loki <= NLoki(id)
            /\ hist[id].posts <= Configured
            /\ hist[id].dequeued = 1 =>
                  \A i \in 1..Len(alert_queue) : alert_queue[i].id # id
            /\ (hist[id].outcome = "none" \/ hist[id].sent # "") => hist[id].acks = 1

\* an alert the worker is through with is left alone
DroppedForGood ==
    \A id \in Ids :
        (hist[id].entry = "webhook" /\ hist[id].acks = 1) => hist'[id] = hist[id]

\* C23: the worker neither retries an alert nor puts it back on the queue:
\* an alert it dequeued is analyzed at most once and its result sent at most
\* once, and after a failure of any step, all channels failing included, the
\* alert is dropped
C23_NoRetryNoRequeue == []HandledOnce /\ [][DroppedForGood]_vars

\* the worker has dropped an alert whose analysis gave no result and one
\* that both configured channels failed to take
C23_Witness ==
    /\ task["worker"].pc = "idle"
    /\ alert_queue = <<>>
    /\ Configured = 2
    /\ \E id \in Ids :
         /\ hist[id].entry = "webhook"
         /\ hist[id].outcome = "none"
         /\ hist[id].acks = 1
    /\ \E id \in Ids :
         /\ hist[id].entry = "webhook"
         /\ hist[id].dequeued = 1
         /\ hist[id].posts = 2
         /\ hist[id].sent = "failed"
         /\ hist[id].acks = 1

\* C24: the worker processes the alerts in the order in which they were put
\* on the queue: an alert is taken only when every alert put on the queue
\* before it is over, however long the LLM call of that one takes, and the
\* queue holds the waiting alerts in the order of their arrival
C24_QueueOrder ==
    /\ \A i, j \in Ids :
         (i < j /\ Enqueued(i) /\ Enqueued(j) /\ hist[j].dequeued > 0) =>
             /\ hist[i].dequeued = 1
             /\ hist[i].acks = 1
             /\ ~AtLLM(i)
    /\ \A m, n \in 1..Len(alert_queue) : m < n => alert_queue[m].id < alert_queue[n].id

\* the second alert of the queue is in the worker's hands after the first,
\* which had an LLM request, is over
C24_Witness ==
    /\ Len(hist) >= 2
    /\ Enqueued(1) /\ Enqueued(2)
    /\ hist[1].llm = 1
    /\ hist[1].acks = 1
    /\ hist[2].dequeued = 1
    /\ hist[2].acks = 0

\* the alerts of a batch that has just come in on /webhook/alerts, as the
\* history has them
Arrived ==
    [i \in 1..(Len(hist') - Len(hist)) |->
        [hist'[Len(hist) + i].alert EXCEPT !.id = Len(hist) + i]]

IsFiring(alert) == alert.status = "firing"

\* a batch comes in: its firing alerts, and no other, go to the end of the
\* queue in the order of the batch, and the worker is where it was
BatchQueued ==
    (Len(hist') > Len(hist) /\ hist'[Len(hist')].entry = "webhook") =>
        /\ alert_queue' = alert_queue \o SelectSeq(Arrived, IsFiring)
        /\ unfinished_tasks' = unfinished_tasks + Len(SelectSeq(Arrived, IsFiring))
        /\ task' = task
        /\ \A id \in DOMAIN hist : hist'[id] = hist[id]
        /\ \A id \in DOMAIN hist' \ DOMAIN hist :
             hist'[id].entry = "webhook" /\ hist'[id].dequeued = 0

\* the queue takes a batch at any length and whatever the worker does, and
\* holds and hands out firing alerts only
OnlyFiringQueued ==
    /\ (running /\ Len(hist) < MaxAlerts) => ENABLED receive_alerts
    /\ \A i \in 1..Len(alert_queue) : alert_queue[i].status = "firing"
    /\ \A id \in Ids : hist[id].dequeued > 0 => hist[id].status = "firing"

\* C25: /webhook/alerts puts exactly the firing alerts of a batch on the
\* queue, in the order of the batch, and is done without waiting for the
\* worker whatever the length of the queue; every alert the worker takes
\* from the queue is therefore firing
C25_FiringAlertsQueued == []OnlyFiringQueued /\ [][BatchQueued]_vars

\* a resolved and a firing alert came in, the resolved one was left out and
\* the firing one is in the worker's hands
C25_Witness ==
    /\ Len(hist) = 2
    /\ hist[1].entry = "webhook" /\ hist[1].status = "resolved"
    /\ hist[1].dequeued = 0
    /\ hist[2].entry = "webhook" /\ hist[2].status = "firing"
    /\ hist[2].dequeued = 1
    /\ task["worker"].alert.id = 2

\* a failure of the loop touches neither the queue nor an alert; during the
\* pause nothing is taken from the queue; when the pause is over the worker
\* takes the oldest alert of the queue, or waits for one, unless it was
\* cancelled
PauseThenResume ==
    /\ (task["worker"].pc = "idle" /\ task["worker"]'.pc = "pause") =>
          UNCHANGED <<alert_queue, unfinished_tasks, hist, running>>
    /\ (task["worker"].pc = "pause" /\ task["worker"]'.pc = "pause") =>
          /\ unfinished_tasks' - unfinished_tasks = Len(alert_queue') - Len(alert_queue)
          /\ \A id \in DOMAIN hist : hist'[id] = hist[id]
    /\ (task["worker"].pc = "pause" /\ task["worker"]'.pc # "pause" /\ running') =>
          IF alert_queue = <<>>
          THEN task["worker"]'.pc = "idle" /\ UNCHANGED <<alert_queue, hist>>
          ELSE /\ alert_queue' = Tail(alert_queue)
               /\ task["worker"]'.alert = Head(alert_queue)
               /\ hist'[Head(alert_queue).id].dequeued = 1

\* C26: after a failure of the loop itself, outside the processing of an
\* alert, the worker pauses and then goes back to taking alerts from the
\* queue; the failure does not end the worker, and every alert put on the
\* queue after it is processed
C26_LoopFailureSurvived ==
    /\ []((loop_failed # <<>> /\ running) => task["worker"].pc # "cancelled")
    /\ [][PauseThenResume]_vars
    /\ \A id \in 1..MaxAlerts :
         (Enqueued(id) /\ loop_failed # <<>> /\ id > loop_failed[1])
            ~> ((id <= Len(hist) /\ hist[id].dequeued = 1 /\ hist[id].acks = 1)
                  \/ ~running)

\* the loop failed before any alert came in, and the worker is through with
\* the two alerts that came in afterwards
C26_Witness ==
    /\ running
    /\ loop_failed = <<0>>
    /\ Len(hist) = 2
    /\ \A id \in {1, 2} :
         /\ Enqueued(id)
         /\ hist[id].dequeued = 1
         /\ hist[id].acks = 1
    /\ hist[1].llm = 1

---------------------------------------------------------------------------
(* Claims about the gathering and the query builders, checked under        *)
(* GatherSpec                                                              *)

\* the names of the first n of the queries whose answer had data, in order
RECURSIVE WithData(_, _)
WithData(queries, n) ==
    IF n = 0 THEN <<>>
    ELSE IF AnswerTo(n).kind = "success" /\ AnswerTo(n).data
    THEN Append(WithData(queries, n - 1), queries[n][1])
    ELSE WithData(queries, n - 1)

\* the queries from the n-th on
From(queries, n) == SubSeq(queries, n, Len(queries))

\* C27: get_metrics_for_alert and get_logs_for_alert send each query built
\* from the labels once, in order; the mapping they build has the name of a
\* query exactly when the answer to it had data; an empty answer and a
\* failed request leave the name out and end nothing
C27_OnlyQueriesWithData ==
    \A id \in Ids :
        LET run == task["worker"]
            metric_queries == Prometheus_build_queries_from_labels(hist[id].labels)
            log_queries == Loki_build_queries_from_labels(hist[id].labels)
        IN  /\ hist[id].prom <= Len(metric_queries)
            /\ hist[id].loki <= Len(log_queries)
            /\ hist[id].outcome = ""
            /\ run.pc = "prom" =>
                  /\ hist[id].prom >= 1 /\ hist[id].loki = 0
                  /\ run.pending = From(metric_queries, hist[id].prom)
                  /\ run.metrics = WithData(metric_queries, hist[id].prom - 1)
            /\ run.pc = "loki" =>
                  /\ hist[id].prom = Len(metric_queries) /\ hist[id].loki >= 1
                  /\ run.metrics = WithData(metric_queries, Len(metric_queries))
                  /\ run.pending = From(log_queries, hist[id].loki)
                  /\ run.logs = WithData(log_queries, hist[id].loki - 1)
            /\ run.pc = "llm" =>
                  /\ hist[id].prom = Len(metric_queries)
                  /\ hist[id].loki = Len(log_queries)
                  /\ run.prompt = Summaries(WithData(metric_queries, Len(metric_queries)),
                                             WithData(log_queries, Len(log_queries)))

\* the metrics of an alert with three or more metric queries are gathered:
\* the backend had data for some, nothing for others, and a request failed
C27_Witness ==
    /\ task["worker"].pc = "loki"
    /\ task["worker"].qfail
    /\ Len(task["worker"].metrics) >= 2
    /\ \E id \in Ids :
         /\ hist[id].prom >= Len(task["worker"].metrics) + 2
         /\ \E n \in 1..Len(backend) : AnswerTo(n) = [kind |-> "success", data |-> TRUE]
         /\ \E n \in 1..Len(backend) : AnswerTo(n).kind = "exception"

\* the label has a value, and the value is not empty
Carries(labels, key) ==
    \E i \in 1..Len(labels) : labels[i][1] = key /\ labels[i][2] # ""

GenericLogNames == {"all_errors", "all_warnings"}

\* the names of the log queries that go with the labels that have a value
LabelLogNames(labels) ==
    (IF Carries(labels, "service")
     THEN {"service_all_logs", "service_errors", "service_warnings",
           "container_logs", "container_errors"}
     ELSE {})
    \cup (IF Carries(labels, "job") THEN {"job_logs", "job_errors"} ELSE {})
    \cup (IF Carries(labels, "instance") THEN {"instance_logs"} ELSE {})

\* C28: the log queries are exactly all_errors and all_warnings if and only
\* if the labels carry no non-empty service, job or instance; otherwise they
\* hold neither of the two and hold the service, job, container and instance
\* queries of exactly the labels that are there; these are the queries the
\* log backend is asked
C28_GenericOnlyWithoutLabels ==
    \A id \in Ids :
        LET labels == hist[id].labels
            queries == Loki_build_queries_from_labels(labels)
            names == QueryNamesOf(queries)
            unlabelled == ~Carries(labels, "service") /\ ~Carries(labels, "job")
                            /\ ~Carries(labels, "instance")
        IN  /\ (names = GenericLogNames) <=> unlabelled
            /\ ~unlabelled =>
                  /\ names \cap GenericLogNames = {}
                  /\ names = LabelLogNames(labels)
            /\ Cardinality(names) = Len(queries)
            /\ task["worker"].pc = "loki" =>
                  QueryNamesOf(task["worker"].pending) \subseteq names
            /\ task["worker"].pc = "llm" => hist[id].loki = Cardinality(names)

\* the logs of an alert with a service, an instance and a job label of the
\* empty value have been asked for: six queries
C28_Witness ==
    /\ task["worker"].pc = "llm"
    /\ \E id \in Ids :
         /\ Carries(hist[id].labels, "service")
         /\ Carries(hist[id].labels, "instance")
         /\ \E i \in 1..Len(hist[id].labels) : hist[id].labels[i] = <<"job", "">>
         /\ hist[id].loki = 6

\* component or alertname matches none of cpu, memory and disk
NoResourceMatch(labels) ==
    \A word \in {"cpu", "memory", "disk"} : ~PromMatches(labels, word)

\* C29: labels with a non-empty instance give a metric query set that is not
\* empty and holds instance_up; the metric query set is empty, and the
\* metrics backend is sent no request, exactly when there is no instance, no
\* job, and component and alertname match none of cpu, memory and disk
C29_InstanceUpAndEmptySet ==
    \A id \in Ids :
        LET labels == hist[id].labels
            queries == Prometheus_build_queries_from_labels(labels)
            bare == /\ ~Carries(labels, "instance")
                    /\ ~Carries(labels, "job")
                    /\ NoResourceMatch(labels)
        IN  /\ Carries(labels, "instance") =>
                  /\ queries # <<>>
                  /\ "instance_up" \in QueryNamesOf(queries)
            /\ (queries = <<>>) <=> bare
            /\ task["worker"].pc = "prom" => ~bare
            /\ task["worker"].pc \in {"loki", "llm"} => ((hist[id].prom = 0) <=> bare)

\* the logs of an alert with no instance, no job and no resource in its name
\* are asked for, and the metrics backend was sent nothing
C29_Witness ==
    /\ task["worker"].pc = "loki"
    /\ \E id \in Ids :
         /\ hist[id].prom = 0
         /\ hist[id].loki >= 1
         /\ ~Carries(hist[id].labels, "instance")
         /\ LabelGet(hist[id].labels, "alertname", "") = "NodeDown"

\* the metrics of an alert with an instance and no job are asked for,
\* instance_up among them
C29_InstanceWitness ==
    /\ task["worker"].pc = "prom"
    /\ \E id \in Ids :
         /\ Carries(hist[id].labels, "instance")
         /\ ~Carries(hist[id].labels, "job")
         /\ \E i \in 1..Len(task["worker"].pending) :
               task["worker"].pending[i][1] = "instance_up"

---------------------------------------------------------------------------
(* Claims about the parsed log entries, checked under StreamSpec *)

\* the place of a character of a timestamp in the order of characters
CharRank(c) == CHOOSE i \in 1..14 : SubSeq("-.0123456789:T", i, i) = c

\* a < b for two timestamp strings, as strings compare
RECURSIVE StrLess(_, _)
StrLess(a, b) ==
    IF Len(b) = 0 THEN FALSE
    ELSE IF Len(a) = 0 THEN TRUE
    ELSE IF SubSeq(a, 1, 1) # SubSeq(b, 1, 1)
    THEN CharRank(SubSeq(a, 1, 1)) < CharRank(SubSeq(b, 1, 1))
    ELSE StrLess(SubSeq(a, 2, Len(a)), SubSeq(b, 2, Len(b)))

\* no entry is older than one that comes after it
MostRecentFirst(entries) ==
    \A j, k \in 1..Len(entries) :
        j < k => ~StrLess(entries[j].timestamp, entries[k].timestamp)

\* C30: the entries of every batch the formatter is given are ordered most
\* recent first over the whole batch, also when the response to the query
\* had several streams
C30_MostRecentFirst ==
    prompt # NoPrompt =>
        \A i \in 1..Len(logs_data) : MostRecentFirst(logs_data[i][2])

---------------------------------------------------------------------------
(* Claims about the order of the two gatherers, checked under GatherSpec *)

\* a metric query of the alert is with the backend, unanswered
MetricsOutstanding(id) ==
    \E t \in Tasks : task[t].pc = "prom" /\ task[t].alert.id = id

\* analyze_alert awaits get_metrics_for_alert before it calls
\* get_logs_for_alert: a log query is sent only after every metric query
\* was answered
LogsAfterMetrics ==
    \A id \in Ids :
        hist[id].loki >= 1 => (~MetricsOutstanding(id) /\ hist[id].prom = NProm(id))

\* C31: the metrics and the logs of an alert are gathered concurrently: the
\* log gatherer is started with the metric gatherer and waits for none of
\* its answers, so while a metric query is unanswered a log query is out
C31_GatheredConcurrently ==
    \A id \in Ids : MetricsOutstanding(id) => hist[id].loki >= 1

---------------------------------------------------------------------------
(* Claims about the Alert record, checked under Spec *)

\* the alerts the program holds: on the queue, in the hands of a coroutine,
\* and waiting in a batch
HeldAlerts ==
    { alert_queue[i] : i \in 1..Len(alert_queue) }
      \cup { task[t].alert : t \in { u \in Tasks : task[u].alert # NoAlert } }
      \cup UNION { { task[t].rest[i] : i \in 1..Len(task[t].rest) } : t \in Tasks }

\* C32: an alert is as it was submitted (status, labels, annotations,
\* startsAt, endsAt, generatorURL) at every step of its processing, whether
\* the steps succeed or fail: gathering, analysis, parsing, building the
\* result and notifying change the working data of the run only
C32_AlertNeverMutated ==
    \A alert \in HeldAlerts :
        /\ alert.id \in Ids
        /\ alert = hist[alert.id].alert

\* the analysis of an alert gave a result and its notification is on its way,
\* and the analysis of another has failed after its gathering
C32_Witness ==
    /\ \E t \in Tasks :
         /\ task[t].pc \in {"slack", "webhook"}
         /\ task[t].alert \in HeldAlerts
         /\ task[t].alert.annotations # <<>>
         /\ hist[task[t].alert.id].outcome = "result"
         /\ hist[task[t].alert.id].loki >= 1
    /\ \E id \in Ids : hist[id].outcome = "none" /\ hist[id].llm >= 1

---------------------------------------------------------------------------
(* Claims about the chat-channel rendering, checked under SlackSpec *)

\* the text cut at its line ends
RECURSIVE SplitLines(_)
SplitLines(text) ==
    IF \E i \in 1..Len(text) : Ch(text, i) = "\n"
    THEN LET i == CHOOSE k \in 1..Len(text) :
                    /\ Ch(text, k) = "\n"
                    /\ \A j \in 1..(k - 1) : Ch(text, j) # "\n"
         IN  <<SubSeq(text, 1, i - 1)>> \o SplitLines(SubSeq(text, i + 1, Len(text)))
    ELSE <<text>>

\* the lines of a block under its heading
Rendered(text, heading) ==
    SplitLines(SubSeq(text, Len(heading) + 2, Len(text)))

\* the accent for a severity in lower case
AccentOf(severity) ==
    CASE severity = "critical" -> "#d32f2f"
      [] severity = "warning" -> "#f57c00"
      [] severity = "info" -> "#1976d2"
      [] OTHER -> "#757575"

\* C33: the Slack message has the accent of the severity whatever its case:
\* critical red, warning orange, info blue, anything else gray; it shows the
\* first 5 evidence items at most, and every remediation step in the
\* original order, numbered from 1
C33_SlackRendering ==
    message # NoMessage =>
        LET evidence == payload.analysis.evidence
            steps == payload.analysis.remediation_steps
            bullets == Rendered(message.evidence, "*Evidence:*")
            numbered == Rendered(message.remediation, "*Remediation Steps:*")
        IN  /\ message.color = AccentOf(lower(payload.severity))
            /\ IF evidence = <<>> THEN bullets = <<"">>
               ELSE /\ Len(bullets) = Min(Len(evidence), 5)
                    /\ \A i \in 1..Len(bullets) : bullets[i] = Bullet \o evidence[i]
            /\ IF steps = <<>> THEN numbered = <<"">>
               ELSE /\ Len(numbered) = Len(steps)
                    /\ \A i \in 1..Len(steps) :
                          numbered[i] = IntStr(i) \o ". " \o steps[i]

\* the message for a severity in capitals, with more evidence than is shown
\* and three steps
C33_Witness ==
    /\ message # NoMessage
    /\ payload.severity = "CRITICAL"
    /\ message.color = "#d32f2f"
    /\ Len(payload.analysis.evidence) = 7
    /\ Len(payload.analysis.remediation_steps) = 3

---------------------------------------------------------------------------
(* Claims about the acknowledgements of the worker, checked under Spec *)

\* the worker holds the alert: it was dequeued and its round is not over
WorkerHolds(id) ==
    /\ task["worker"].alert.id = id
    /\ task["worker"].pc \in {"prom", "loki", "llm", "slack", "webhook"}

\* C34: the worker calls task_done once for each alert it dequeued, at the
\* end of its round, however the round ends (notified, not notified,
\* analysis failed, cancelled in the middle): an alert has no more
\* acknowledgements than dequeues, fewer only while the worker holds it, and
\* an idle or ended worker has acknowledged every alert it dequeued
C34_AcknowledgedOnce ==
    /\ \A id \in Ids :
         /\ hist[id].acks <= hist[id].dequeued
         /\ hist[id].dequeued <= 1
         /\ hist[id].acks < hist[id].dequeued <=> WorkerHolds(id)
    /\ task["worker"].pc \in {"idle", "cancelled"} =>
         \A id \in Ids : hist[id].acks = hist[id].dequeued
    /\ unfinished_tasks = Cardinality({ id \in Ids : Enqueued(id) /\ hist[id].acks = 0 })

\* the worker is idle after two alerts: the analysis of one failed, the
\* other was notified, and both were acknowledged
C34_Witness ==
    /\ task["worker"].pc = "idle"
    /\ running
    /\ Len(hist) = 2
    /\ \A id \in Ids : Enqueued(id) /\ hist[id].dequeued = 1 /\ hist[id].acks = 1
    /\ \E id \in Ids : hist[id].outcome = "none"
    /\ \E id \in Ids : hist[id].sent = "ok"

\* the worker was cancelled while it waited for the LLM, and the alert it
\* held was acknowledged
C34_CancelledWitness ==
    /\ task["worker"].pc = "cancelled"
    /\ \E id \in Ids :
         /\ hist[id].dequeued = 1 /\ hist[id].acks = 1
         /\ hist[id].llm >= 1 /\ hist[id].outcome = ""

---------------------------------------------------------------------------
(* Claims about a missing API key, checked under Spec *)

\* the analysis of the alert was started
Started(id) == hist[id].prom + hist[id].loki >= 1

\* with no API key: no request has gone to the LLM backend for any alert, the
\* analysis of an alert has failed as soon as its gathering is over, and
\* nothing was sent to a channel for it
NothingAskedNothingSent ==
    ~settings.api_key =>
        \A id \in Ids :
            /\ hist[id].llm = 0
            /\ ~AtLLM(id)
            /\ ~hist[id].got_text
            /\ hist[id].outcome \in {"", "none", "skipped"}
            /\ hist[id].posts = 0
            /\ hist[id].slack = "" /\ hist[id].webhook = "" /\ hist[id].sent = ""
            /\ (Started(id) /\ ~Gathering(id) /\ running) => hist[id].outcome = "none"
            /\ (Enqueued(id) /\ hist[id].outcome = "none") => hist[id].acks = 1

\* in the step in which the analysis of the worker's alert fails, the worker
\* takes the alert that waits next, if there is one
WorkerGoesOn ==
    \A id \in Ids :
        (/\ WorkerHolds(id)
         /\ hist[id].outcome = "" /\ hist'[id].outcome = "none"
         /\ alert_queue # <<>>)
        => /\ task["worker"]'.alert = Head(alert_queue)
           /\ task["worker"]'.pc \in {"prom", "loki"}
           /\ alert_queue' = Tail(alert_queue)

\* C35: with no API key, processing an alert sends no request to the LLM
\* backend, the analysis fails and no notification is sent; the worker
\* then goes on with the next alert
C35_NoKeyNoRequest ==
    /\ []NothingAskedNothingSent
    /\ [][~settings.api_key => WorkerGoesOn]_vars

\* with no API key and both channels configured, the analysis of the first
\* alert of the queue has failed and the worker gathers for the second
C35_Witness ==
    /\ ~settings.api_key
    /\ settings.slack_webhook_url /\ settings.generic_webhook_url
    /\ Len(hist) = 2
    /\ Enqueued(1) /\ hist[1].outcome = "none" /\ hist[1].loki >= 1
    /\ Enqueued(2) /\ hist[2].dequeued = 1 /\ Gathering(2)
    /\ task["worker"].alert.id = 2

---------------------------------------------------------------------------
(* Claims about the queue status, checked under Spec *)

\* the alerts put on the queue that the worker has not taken
Waiting == { id \in Ids : Enqueued(id) /\ hist[id].dequeued = 0 }

\* C36: GET /queue/status reports processing exactly when an alert waits on
\* the queue and idle otherwise; the size it reports is the number of alerts
\* that wait, without the alert the worker has taken and still holds
C36_StatusCountsWaiting ==
    /\ queue_status.status = (IF Waiting # {} THEN "processing" ELSE "idle")
    /\ queue_status.queue_size = Cardinality(Waiting)
    /\ \A id \in Ids : WorkerHolds(id) => id \notin Waiting

\* the worker holds an alert, none waits, and the status is idle with size 0
C36_Witness ==
    /\ \E id \in Ids : WorkerHolds(id) /\ hist[id].llm = 1
    /\ Waiting = {}
    /\ queue_status = [queue_size |-> 0, status |-> "idle"]

\* the worker holds an alert, another waits, and the status is processing
\* with size 1
C36_WaitingWitness ==
    /\ \E id \in Ids : WorkerHolds(id)
    /\ queue_status = [queue_size |-> 1, status |-> "processing"]

=============================================================================
